---- MODULE Spec2Model ----
(***************************************************************************)
(* A model of the address validator (email/address.go), the SES/SNS        *)
(* delivery-feedback dispatcher (handler/sns.go) and the inbound mailto    *)
(* handler of the subscription verifier.                                   *)
(*                                                                         *)
(* The sources hold two snsHandler implementations: handler/sns.go, where  *)
(* parseSesEvent builds one sesEventHandler for every event type, and      *)
(* unnamed/part_002, where newSesEventHandler builds a handler per event   *)
(* type.  Both are modelled; snsImpl says which one handles a batch.       *)
(*                                                                         *)
(* Go strings are modelled as sequences of tokens: a token is a chunk of   *)
(* text that the code never splits any further.  Concatenation is \o,      *)
(* equality of strings is equality of token sequences.                     *)
(***************************************************************************)
EXTENDS Integers, Sequences, FiniteSets, TLC

VARIABLES
    \* ---- ProdAddressValidator.ValidateAddress, one call at a time
    pc,          \* position of the current ValidateAddress call
    ncalls,      \* number of ValidateAddress calls started so far
    address,     \* the address argument of the current call
    email,       \* addr.Address, the canonical parsed address
    domain,      \* the part of email after the last '@'
    ctxDone,     \* the caller's context was cancelled / its deadline fired
    cancelAt,    \* Len(calls) at the moment ctx was cancelled, -1 if never
    suppressed,  \* the Suppressor's durable suppression list
    calls,       \* external calls made by the current call, in order
    loop,        \* locals of checkMailHosts and the functions it calls
    failure,     \* returned *ValidationFailure
    err,         \* returned error
    \* ---- snsHandler.HandleEvent
    snsPc,       \* "idle" | "running" | "done"
    snsImpl,     \* the source file of the snsHandler that runs
    batch,       \* e.Records of the current SNSEvent
    idx,         \* number of records of batch handled so far
    pending,     \* turns of the loop of updateRecipients still to be run
    logs,        \* lines printed to Log by the SNS handler, in order
    agentCalls,  \* calls made to Agent by the SNS handler, in order
    \* ---- mailtoHandler.HandleEvent
    mailPc,      \* "idle" | "running" | "Bounce" | "Unsubscribe" | "done"
    mailBatch,   \* e.Records of the current SimpleEmailEvent
    mailIdx,     \* number of records of mailBatch handled so far
    mailEv,      \* the mailtoEvent of the record being handled
    mailCalls,   \* Bouncer / Agent calls of the mailto handler, in order
    mailLogs     \* lines printed to Log by the mailto handler, in order

validatorVars == <<pc, ncalls, address, email, domain, ctxDone, cancelAt,
                   suppressed, calls, loop, failure, err>>
snsVars == <<snsPc, snsImpl, batch, idx, pending, logs, agentCalls>>
mailVars == <<mailPc, mailBatch, mailIdx, mailEv, mailCalls, mailLogs>>
vars == <<validatorVars, snsVars, mailVars>>

----------------------------------------------------------------------------
\* Bounds of the model.

\* ValidateAddress calls per behaviour.
MaxCalls == 2
\* Records per SNS notification batch.
MaxRecords == 2

----------------------------------------------------------------------------
\* Strings as token sequences.

RECURSIVE JoinStrings(_, _)
\* strings.Join(elems, sep)
JoinStrings(elems, sep) ==
    IF Len(elems) = 0 THEN <<>>
    ELSE IF Len(elems) = 1 THEN Head(elems)
    ELSE Head(elems) \o sep \o JoinStrings(Tail(elems), sep)

RECURSIVE Flat(_)
\* the text of a string: its tokens written one after the other
Flat(s) == IF Len(s) = 0 THEN "" ELSE Head(s) \o Flat(Tail(s))

\* strings.Contains(s, sub): the text of sub occurs somewhere in the text of
\* s, at any character position
Contains(s, sub) ==
    LET text == Flat(s)
        needle == Flat(sub)
    IN  \E p \in 0..(Len(text) - Len(needle)) :
            SubSeq(text, p + 1, p + Len(needle)) = needle

\* index of the last token t of s, 0 if there is none (strings.LastIndexByte)
LastIndex(s, t) ==
    IF \E p \in 1..Len(s) : s[p] = t
    THEN CHOOSE p \in 1..Len(s) : s[p] = t /\ \A q \in (p+1)..Len(s) : s[q] # t
    ELSE 0

\* index of the first token t of s, 0 if there is none
FirstIndex(s, t) ==
    IF \E p \in 1..Len(s) : s[p] = t
    THEN CHOOSE p \in 1..Len(s) : s[p] = t /\ \A q \in 1..(p-1) : s[q] # t
    ELSE 0

RECURSIVE Split(_, _)
\* strings.Split(s, sep) for a one-token separator
Split(s, sep) ==
    LET p == FirstIndex(s, sep) IN
    IF p = 0 THEN <<s>>
    ELSE <<SubSeq(s, 1, p - 1)>> \o Split(SubSeq(s, p + 1, Len(s)), sep)

----------------------------------------------------------------------------
\* Go error values.

NilErr == [isErr |-> FALSE, msg |-> <<>>, ext |-> FALSE]

\* an error with message msg; ext: errors.Is(err, ops.ErrExternal)
Err(msg, ext) == [isErr |-> TRUE, msg |-> msg, ext |-> ext]

\* fmt.Errorf(prefix + "%w", e)
Wrap(prefix, e) ==
    Err(prefix \o (IF e.isErr THEN e.msg ELSE <<"%!w(<nil>)">>), e.ext)

\* errors.Join keeps every non-nil error; this variant keeps the first only
JoinFirstOnly(errs) ==
    LET nonNil == SelectSeq(errs, LAMBDA e : e.isErr) IN
    IF Len(nonNil) = 0 THEN NilErr ELSE Head(nonNil)

\* a join that keeps the last non-nil error only
JoinLastOnly(errs) ==
    LET nonNil == SelectSeq(errs, LAMBDA e : e.isErr) IN
    IF Len(nonNil) = 0 THEN NilErr ELSE nonNil[Len(nonNil)]

\* errors.Join(errs...)
Join(errs) ==
    LET nonNil == SelectSeq(errs, LAMBDA e : e.isErr) IN
    IF Len(nonNil) = 0 THEN NilErr
    ELSE Err(JoinStrings([n \in 1..Len(nonNil) |-> nonNil[n].msg], <<"\n">>),
             \E n \in 1..Len(nonNil) : nonNil[n].ext)

----------------------------------------------------------------------------
\* Address parsing and the static policy filters (email/address.go).

\* Addresses handed to ValidateAddress.
Addresses == {
    <<"mbland", "@", "acm", ".", "org">>,
    <<"Mike", " ", "<", "mbland", "@", "acm", ".", "org", ">">>,
    <<"mbland">>,
    <<"postmaster", "+", "tag", "@", "acm", ".", "org">>,
    <<"abuse", "@", "acm", ".", "org">>,
    <<"mbland", "@", "mail", ".", "example", ".", "com">>,
    <<"mbland", "@", "localhost">>,
    <<"mbland", "@", "intranet">>,
    <<"mbland", "@", "[", "192", ".", "168", ".", "0", ".", "1", "]">>,
    <<"mbland", "@", "192", ".", "168", ".", "0", ".", "1">> }

\* mail.ParseAddress(address): "Name <addr-spec>" or a bare addr-spec
ParseAddress(a) ==
    LET open == FirstIndex(a, "<")
        spec == IF open > 0 /\ a[Len(a)] = ">"
                THEN SubSeq(a, open + 1, Len(a) - 1) ELSE a
        at   == LastIndex(spec, "@")
        ok   == /\ at > 1 /\ at < Len(spec)
                /\ \A p \in 1..Len(spec) : spec[p] \notin {" ", "<", ">"}
                /\ FirstIndex(spec, "@") = at
    IN  [ok |-> ok, Address |-> IF ok THEN spec ELSE <<>>]

\* parseAddress(address) (email, user, domain string, err error)
parseAddress(a) ==
    LET addr == ParseAddress(a)
        i0   == LastIndex(addr.Address, "@")
    IN  IF ~addr.ok
        THEN [email |-> <<>>, user |-> <<>>, domain |-> <<>>,
              err |-> Err(<<"invalid email address: ">> \o a \o <<": parse error">>,
                          FALSE)]
        ELSE [email |-> addr.Address,
              user |-> SubSeq(addr.Address, 1, i0 - 1),
              domain |-> SubSeq(addr.Address, i0 + 1, Len(addr.Address)),
              err |-> NilErr]

invalidUserNames == { <<"postmaster">>, <<"abuse">> }

invalidDomains == { <<"localhost">>, <<"example", ".", "com">> }

Octets == {"0", "1", "127", "168", "192"}

\* net.ParseIP(domain) != nil, for dotted-quad IPv4 literals
ParseIP(d) ==
    LET parts == Split(d, ".") IN
    /\ Len(parts) = 4
    /\ \A n \in 1..4 : Len(parts[n]) = 1 /\ parts[n][1] \in Octets

\* getPrimaryDomain slices parts[len(parts)-2:], which panics for one label
getPrimaryDomainPanics(domainName) == Len(Split(domainName, ".")) < 2

\* getPrimaryDomain(domainName)
getPrimaryDomain(domainName) ==
    LET parts == Split(domainName, ".") IN
    JoinStrings(SubSeq(parts, Len(parts) - 1, Len(parts)), <<".">>)

\* the same disjuncts with the user name compared as it is, "+tag" included
knownInvalidExactUser(user, dom) ==
    \/ user \in invalidUserNames
    \/ (Len(dom) > 0 /\ dom[1] = "[")
    \/ ParseIP(dom)
    \/ dom \in invalidDomains

\* the disjuncts of isKnownInvalidAddress evaluated before getPrimaryDomain
knownInvalidBeforePrimary(user, dom) ==
    \/ Split(user, "+")[1] \in invalidUserNames
    \/ (Len(dom) > 0 /\ dom[1] = "[")
    \/ ParseIP(dom)
    \/ dom \in invalidDomains

\* isKnownInvalidAddress(user, domain)
isKnownInvalidAddress(user, dom) ==
    \/ knownInvalidBeforePrimary(user, dom)
    \/ getPrimaryDomain(dom) \in invalidDomains

\* isKnownInvalidAddress panics in getPrimaryDomain (index out of range)
isKnownInvalidAddressPanics(user, dom) ==
    ~knownInvalidBeforePrimary(user, dom) /\ getPrimaryDomainPanics(dom)

----------------------------------------------------------------------------
\* The Resolver and the lookup wrapper.

\* What a Resolver method returns: values and an error that is nil, a
\* net.DNSError with IsNotFound, or any other error.
ErrKinds == {"nil", "notfound", "other"}

\* The DNS worlds explored: the answers the Resolver may give, call by
\* call, for each target.  mx1 may have two addresses and ip1 two names.
MXAnswers(target) == {
    [values |-> <<>>, e |-> "notfound"],
    [values |-> <<>>, e |-> "other"],
    [values |-> <<>>, e |-> "nil"],
    [values |-> << <<"mx1">> >>, e |-> "nil"],
    [values |-> << <<"mx1">>, <<"mx2">> >>, e |-> "nil"],
    [values |-> << <<"mx2">>, <<"mx1">> >>, e |-> "other"] }

HostAnswers(target) ==
    IF target = <<"mx1">>
    THEN { [values |-> <<>>, e |-> "notfound"],
           [values |-> <<>>, e |-> "other"],
           [values |-> << <<"ip1">> >>, e |-> "nil"],
           [values |-> << <<"ip1">>, <<"ip2">> >>, e |-> "nil"] }
    ELSE IF target = <<"mx2">>
    THEN { [values |-> <<>>, e |-> "notfound"],
           [values |-> <<>>, e |-> "other"],
           [values |-> << <<"ip2">> >>, e |-> "other"] }
    ELSE { [values |-> <<>>, e |-> "notfound"],
           [values |-> <<>>, e |-> "other"],
           [values |-> << <<"ip1">> >>, e |-> "nil"],
           [values |-> << <<"ip2">> >>, e |-> "nil"] }

AddrAnswers(target) ==
    IF target = <<"ip1">>
    THEN { [values |-> <<>>, e |-> "notfound"],
           [values |-> <<>>, e |-> "other"],
           [values |-> << <<"rev1">> >>, e |-> "nil"],
           [values |-> << <<"rev1">>, <<"rev2">> >>, e |-> "nil"] }
    ELSE { [values |-> <<>>, e |-> "notfound"],
           [values |-> <<>>, e |-> "other"],
           [values |-> << <<"rev2">> >>, e |-> "nil"] }

\* With the context cancelled a Resolver method returns no values and the
\* context's error, which is not a not-found DNSError.
CancelledAnswer == [values |-> <<>>, e |-> "other"]

\* the answers the Resolver can give to a call
Answers(all) == IF ctxDone THEN {CancelledAnswer} ELSE all

\* the error value of a Resolver method
ResolverErr(e) ==
    IF e = "nil" THEN NilErr
    ELSE IF e = "notfound" THEN Err(<<"no such host">>, FALSE)
    ELSE Err(<<"lookup failure">>, FALSE)

\* lookup that looks at the resolver's error before it looks at the values
lookupErrFirst(ans, target) ==
    [values |-> ans.values,
     err |-> IF ans.e = "notfound"
             THEN Err(<<"no records for ">> \o target, FALSE)
             ELSE IF ans.e = "other" \/ Len(ans.values) = 0
             THEN Wrap(<<"external error", ": failed to resolve ">> \o target
                         \o <<": ">>,
                       [ResolverErr(ans.e) EXCEPT !.ext = TRUE])
             ELSE NilErr]

\* lookup(lookup F, ctx, target) (values T, err error)
lookup(ans, target) ==
    [values |-> ans.values,
     err |-> IF Len(ans.values) # 0 THEN NilErr
             ELSE IF ans.e = "notfound"
             THEN Err(<<"no records for ">> \o target, FALSE)
             ELSE Wrap(<<"external error", ": failed to resolve ">> \o target
                         \o <<": ">>,
                       [ResolverErr(ans.e) EXCEPT !.ext = TRUE])]

----------------------------------------------------------------------------
\* ProdAddressValidator.ValidateAddress as a sequence of steps, one for each
\* call of a Suppressor or Resolver method (the suspension points).  A step
\* runs the code from the return of one external call up to the next one.

NoFailure == [isFail |-> FALSE, Reason |-> <<>>]

\* &ValidationFailure{reason}
ValidationFailure(reason) == [isFail |-> TRUE, Reason |-> reason]

\* locals of checkMailHosts (mxRecords, i, errs), checkMailHost (mailHostIps,
\* j, ipErrs) and checkReverseLookupHostResolvesToOriginalIp (hosts, k,
\* hostErrs); err is the error checkMailHosts holds when it calls Suppress
InitLoop == [mxRecords |-> <<>>, i |-> 0, errs |-> <<>>,
             mailHostIps |-> <<>>, j |-> 0, ipErrs |-> <<>>,
             hosts |-> <<>>, k |-> 0, hostErrs |-> <<>>,
             err |-> NilErr]

\* a call of an external method, with its answer
Call(op, arg, ans) == [op |-> op, arg |-> arg, ans |-> ans]

\* checkMailHosts giving up at the first MX record that fails
MxFailedGivingUp(l, e) ==
    LET es == Append(l.errs, e) IN
    [pc |-> "Suppress",
     l |-> [l EXCEPT !.errs = es,
                     !.err = Wrap(<<"no valid MX hosts for ">> \o domain
                                    \o <<": ">>, Join(es))]]

\* checkMailHosts: errs[i] = e, e != nil; next MX record or the final error
MxFailed(l, e) ==
    LET es == Append(l.errs, e) IN
    IF l.i < Len(l.mxRecords)
    THEN [pc |-> "LookupHost",
          l |-> [l EXCEPT !.i = @ + 1, !.errs = es,
                          !.mailHostIps = <<>>, !.j = 0, !.ipErrs = <<>>,
                          !.hosts = <<>>, !.k = 0, !.hostErrs = <<>>]]
    ELSE [pc |-> "Suppress",
          l |-> [l EXCEPT !.errs = es,
                          !.err = Wrap(<<"no valid MX hosts for ">> \o domain
                                         \o <<": ">>, Join(es))]]

\* checkMailHost: errs[j] = e, e != nil; next address or the host's error
IpFailed(l, e) ==
    LET es == Append(l.ipErrs, e) IN
    IF l.j < Len(l.mailHostIps)
    THEN [pc |-> "LookupAddr",
          l |-> [l EXCEPT !.j = @ + 1, !.ipErrs = es,
                          !.hosts = <<>>, !.k = 0, !.hostErrs = <<>>]]
    ELSE MxFailed([l EXCEPT !.ipErrs = es],
                  Wrap(<<"reverse lookup of addresses for ">>
                         \o l.mxRecords[l.i] \o <<" failed: ">>, Join(es)))

\* checkReverseLookupHostResolvesToOriginalIp: errs[k] = e, e != nil; next
\* host name or the address's error
HostFailed(l, e) ==
    LET es == Append(l.hostErrs, e) IN
    IF l.k < Len(l.hosts)
    THEN [pc |-> "LookupHostBack",
          l |-> [l EXCEPT !.k = @ + 1, !.hostErrs = es]]
    ELSE IpFailed([l EXCEPT !.hostErrs = es],
                  Wrap(<<"no host resolves to ">> \o l.mailHostIps[l.j]
                         \o <<": ">>, Join(es)))

\* a check that is content with any address the host resolves to
checkHostResolves(host, addr, r) == r.err

\* checkHostResolvesToAddress after its lookup: nil if addr is among addrs
checkHostResolvesToAddress(host, addr, r) ==
    IF r.err.isErr THEN r.err
    ELSE IF \E n \in 1..Len(r.values) : r.values[n] = addr THEN NilErr
    ELSE Err(host \o <<" resolves to ">> \o JoinStrings(r.values, <<", ">>),
             FALSE)

\* ValidateAddress hands back every checkMailHosts error as it is
ResultKeepingErr(a, e) ==
    [failure |-> IF e.isErr
                 THEN ValidationFailure(<<"address failed DNS validation: ">>
                                          \o a \o <<": ">> \o e.msg)
                 ELSE NoFailure,
     err |-> e]

\* ValidateAddress, lines 111-117: the result for checkMailHosts returning e
Result(a, e) ==
    [failure |-> IF e.isErr
                 THEN ValidationFailure(<<"address failed DNS validation: ">>
                                          \o a \o <<": ">> \o e.msg)
                 ELSE NoFailure,
     err |-> NilErr]

\* checkMailHosts never returns early for an empty MX answer
NoRecordsNever(mxRecords) == FALSE

\* checkMailHosts, line 165: len(mxRecords) == 0
NoRecords(mxRecords) == Len(mxRecords) = 0

\* the call returns (failure, err)
Return(f, e) ==
    /\ pc' = "done"
    /\ failure' = f
    /\ err' = e

\* ValidateAddress(ctx, address) up to its first external call
ValidateAddress(a) ==
    /\ pc \in {"idle", "done", "panic"}
    /\ ncalls < MaxCalls
    /\ ncalls' = ncalls + 1
    /\ address' = a
    /\ calls' = <<>>
    /\ loop' = InitLoop
    /\ ctxDone' = FALSE
    /\ cancelAt' = -1
    /\ LET p == parseAddress(a) IN
       /\ email' = p.email
       /\ domain' = p.domain
       /\ IF p.err.isErr
          THEN Return(ValidationFailure(<<"address failed to parse: ">> \o a),
                      NilErr)
          ELSE IF isKnownInvalidAddressPanics(p.user, p.domain)
          THEN pc' = "panic" /\ failure' = NoFailure /\ err' = NilErr
          ELSE IF isKnownInvalidAddress(p.user, p.domain)
          THEN Return(ValidationFailure(<<"invalid email address: ">> \o a),
                      NilErr)
          ELSE pc' = "IsSuppressed" /\ failure' = NoFailure /\ err' = NilErr
    /\ UNCHANGED <<suppressed, snsVars, mailVars>>

\* the caller's context is cancelled, or its deadline fires, during the call
Cancel ==
    /\ pc \in {"IsSuppressed", "LookupMX", "LookupHost", "LookupAddr",
               "LookupHostBack", "Suppress"}
    /\ ~ctxDone
    /\ ctxDone' = TRUE
    /\ cancelAt' = Len(calls)
    /\ UNCHANGED <<pc, ncalls, address, email, domain, suppressed, calls,
                   loop, failure, err, snsVars, mailVars>>

\* IsSuppressed is asked about the address as given, display name included
IsSuppressedByRawAddress ==
    /\ pc = "IsSuppressed"
    /\ \E fails \in BOOLEAN :
         LET result == ~fails /\ address \in suppressed IN
         /\ calls' = Append(calls, Call("IsSuppressed", address,
                                        [result |-> result, fails |-> fails]))
         /\ IF fails
            THEN Return(NoFailure, Err(<<"IsSuppressed failed">>, TRUE))
            ELSE IF result
            THEN Return(ValidationFailure(<<"suppressed email address: ">>
                                            \o address), NilErr)
            ELSE pc' = "LookupMX" /\ UNCHANGED <<failure, err>>
    /\ UNCHANGED <<ncalls, address, email, domain, ctxDone, cancelAt,
                   suppressed, loop, snsVars, mailVars>>

\* IsSuppressed is called and ValidateAddress goes on to checkMailHosts
\* whatever it returned
IsSuppressedUnheeded ==
    /\ pc = "IsSuppressed"
    /\ \E fails \in BOOLEAN :
         calls' = Append(calls, Call("IsSuppressed", email,
                                     [result |-> ~fails /\ email \in suppressed,
                                      fails |-> fails]))
    /\ pc' = "LookupMX"
    /\ UNCHANGED <<ncalls, address, email, domain, ctxDone, cancelAt,
                   suppressed, loop, failure, err, snsVars, mailVars>>

\* av.Suppressor.IsSuppressed(ctx, email) and what follows, lines 107-110
IsSuppressed ==
    /\ pc = "IsSuppressed"
    /\ \E fails \in BOOLEAN :
         LET result == ~fails /\ email \in suppressed IN
         /\ calls' = Append(calls, Call("IsSuppressed", email,
                                        [result |-> result, fails |-> fails]))
         /\ IF fails
            THEN Return(NoFailure, Err(<<"IsSuppressed failed">>, TRUE))
            ELSE IF result
            THEN Return(ValidationFailure(<<"suppressed email address: ">>
                                            \o address), NilErr)
            ELSE pc' = "LookupMX" /\ UNCHANGED <<failure, err>>
    /\ UNCHANGED <<ncalls, address, email, domain, ctxDone, cancelAt,
                   suppressed, loop, snsVars, mailVars>>

\* checkMailHosts, lines 161-168: lookup(av.Resolver.LookupMX, ctx, domain)
LookupMX ==
    /\ pc = "LookupMX"
    /\ \E ans \in Answers(MXAnswers(domain)) :
         LET r == lookup(ans, domain) IN
         /\ calls' = Append(calls, Call("LookupMX", domain, ans))
         /\ IF NoRecords(r.values)
            THEN LET res == Result(address,
                                   Wrap(<<"failed to retrieve MX records for ">>
                                          \o domain \o <<": ">>, r.err))
                 IN  Return(res.failure, res.err) /\ UNCHANGED loop
            ELSE IF Len(r.values) = 0
            THEN \* the loop over mxRecords has nothing to do
                 /\ pc' = "Suppress"
                 /\ loop' = [loop EXCEPT !.err =
                               Wrap(<<"no valid MX hosts for ">> \o domain
                                      \o <<": ">>, Join(<<>>))]
                 /\ UNCHANGED <<failure, err>>
            ELSE /\ pc' = "LookupHost"
                 /\ loop' = [loop EXCEPT !.mxRecords = r.values, !.i = 1]
                 /\ UNCHANGED <<failure, err>>
    /\ UNCHANGED <<ncalls, address, email, domain, ctxDone, cancelAt,
                   suppressed, snsVars, mailVars>>

\* moves on to what a failed step decided: the next lookup or Suppress
Continue(n) ==
    /\ pc' = n.pc
    /\ loop' = n.l
    /\ UNCHANGED <<failure, err>>

\* checkMailHost, lines 202-206: lookup(av.Resolver.LookupHost, ctx, mailHost)
LookupHost ==
    /\ pc = "LookupHost"
    /\ \E ans \in Answers(HostAnswers(loop.mxRecords[loop.i])) :
         LET mailHost == loop.mxRecords[loop.i]
             r == lookup(ans, mailHost)
         IN  /\ calls' = Append(calls, Call("LookupHost", mailHost, ans))
             /\ IF r.err.isErr
                THEN Continue(MxFailed(loop, r.err))
                ELSE /\ pc' = "LookupAddr"
                     /\ loop' = [loop EXCEPT !.mailHostIps = r.values,
                                             !.j = 1, !.ipErrs = <<>>]
                     /\ UNCHANGED <<failure, err>>
    /\ UNCHANGED <<ncalls, address, email, domain, ctxDone, cancelAt,
                   suppressed, snsVars, mailVars>>

\* checkReverseLookupHostResolvesToOriginalIp, lines 224-228:
\* lookup(av.Resolver.LookupAddr, ctx, addr)
LookupAddr ==
    /\ pc = "LookupAddr"
    /\ \E ans \in Answers(AddrAnswers(loop.mailHostIps[loop.j])) :
         LET addr == loop.mailHostIps[loop.j]
             r == lookup(ans, addr)
         IN  /\ calls' = Append(calls, Call("LookupAddr", addr, ans))
             /\ IF r.err.isErr
                THEN Continue(IpFailed(loop, r.err))
                ELSE /\ pc' = "LookupHostBack"
                     /\ loop' = [loop EXCEPT !.hosts = r.values,
                                             !.k = 1, !.hostErrs = <<>>]
                     /\ UNCHANGED <<failure, err>>
    /\ UNCHANGED <<ncalls, address, email, domain, ctxDone, cancelAt,
                   suppressed, snsVars, mailVars>>

\* checkHostResolvesToAddress, lines 245-256, and the returns of the loops
\* around it when the host resolves to the original address
LookupHostBack ==
    /\ pc = "LookupHostBack"
    /\ \E ans \in Answers(HostAnswers(loop.hosts[loop.k])) :
         LET host == loop.hosts[loop.k]
             addr == loop.mailHostIps[loop.j]
             e == checkHostResolvesToAddress(host, addr, lookup(ans, host))
         IN  /\ calls' = Append(calls, Call("LookupHost", host, ans))
             /\ IF e.isErr
                THEN Continue(HostFailed(loop, e))
                ELSE LET res == Result(address, NilErr)
                     IN  Return(res.failure, res.err) /\ UNCHANGED loop
    /\ UNCHANGED <<ncalls, address, email, domain, ctxDone, cancelAt,
                   suppressed, snsVars, mailVars>>

\* checkMailHosts calling Suppress a second time when the first call fails
SuppressTwice ==
    /\ pc = "Suppress"
    /\ \E fails \in BOOLEAN :
         LET suppressionErr == IF fails THEN Err(<<"Suppress failed">>, TRUE)
                               ELSE NilErr
             res == Result(address, Join(<<loop.err, suppressionErr>>))
             first == Call("Suppress", email, [fails |-> fails])
         IN  /\ calls' = IF fails
                         THEN calls \o <<first, Call("Suppress", email,
                                                     [fails |-> FALSE])>>
                         ELSE Append(calls, first)
             /\ suppressed' = suppressed \cup {email}
             /\ Return(res.failure, res.err)
    /\ UNCHANGED <<ncalls, address, email, domain, ctxDone, cancelAt, loop,
                   snsVars, mailVars>>

\* checkMailHosts, lines 195-196: av.Suppressor.Suppress(ctx, email)
Suppress ==
    /\ pc = "Suppress"
    /\ \E fails \in BOOLEAN :
         LET suppressionErr == IF fails THEN Err(<<"Suppress failed">>, TRUE)
                               ELSE NilErr
             res == Result(address, Join(<<loop.err, suppressionErr>>))
         IN  /\ calls' = Append(calls, Call("Suppress", email,
                                            [fails |-> fails]))
             /\ suppressed' = IF fails THEN suppressed
                              ELSE suppressed \cup {email}
             /\ Return(res.failure, res.err)
    /\ UNCHANGED <<ncalls, address, email, domain, ctxDone, cancelAt, loop,
                   snsVars, mailVars>>

----------------------------------------------------------------------------
\* The SES event dispatcher (handler/sns.go).

\* An SNS record's Message: the JSON text of an SES event.  wellFormed is
\* whether json.Unmarshal accepts it; the other fields are the values of
\* the JSON members the handler reads.
Message(wellFormed, eventType, to, f) ==
    [wellFormed |-> wellFormed, eventType |-> eventType,
     messageId |-> <<"deadbeef">>, from |-> << <<"no-reply@mike-bland.com">> >>,
     to |-> to, subject |-> <<"Test message">>,
     bounceType |-> f[1], bounceSubType |-> f[2],
     complaintSubType |-> f[3], complaintFeedbackType |-> f[4],
     reason |-> f[5]]

NoFields == << <<>>, <<>>, <<>>, <<>>, <<>> >>

Recipient1 == <<"mbland@acm.org">>
Recipient2 == <<"foo@bar.com">>

ToLists == { <<>>, <<Recipient1>>, <<Recipient1, Recipient2>> }

\* complaintSubType and complaintFeedbackType of the complaints explored
ComplaintTypes == {
    << <<>>, <<>> >>,
    << <<>>, <<"abuse">> >>,
    << <<>>, <<"not-spam">> >>,
    << <<"OnAccountSuppressionList">>, <<"not-spam">> >>,
    << <<"not-spam">>, <<"abuse">> >> }

\* The messages explored.
Messages ==
    { Message(FALSE, <<>>, <<>>, NoFields) }
    \cup { Message(TRUE, <<t>>, <<Recipient1>>, NoFields) :
             t \in {"Send", "Delivery", "Open"} }
    \cup { Message(TRUE, <<"Reject">>, <<Recipient1>>,
                   << <<>>, <<>>, <<>>, <<>>, <<"Bad content">> >>) }
    \cup { Message(TRUE, <<"Bounce">>, <<Recipient1, Recipient2>>,
                   << <<"Transient">>, <<"General">>, <<>>, <<>>, <<>> >>) }
    \cup { Message(TRUE, <<"Bounce">>, <<Recipient1>>,
                   << <<"Undetermined">>, <<"Undetermined">>, <<>>, <<>>,
                      <<>> >>) }
    \cup { Message(TRUE, <<"Bounce">>, to,
                   << <<"Permanent">>, <<"General">>, <<>>, <<>>, <<>> >>) :
             to \in ToLists }
    \cup { Message(TRUE, <<"Complaint">>, <<Recipient1>>,
                   << <<>>, <<>>, ct[1], ct[2], <<>> >>) :
             ct \in ComplaintTypes }
    \cup { Message(TRUE, <<"Complaint">>, <<Recipient1, Recipient2>>,
                   << <<>>, <<>>, <<>>, <<"not-spam">>, <<>> >>) }

\* The text of message m, as the log shows it.
Text(m) ==
    IF ~m.wellFormed THEN <<>>
    ELSE <<"{eventType:">> \o m.eventType \o <<",to:">>
         \o JoinStrings(m.to, <<",">>) \o <<",bounce:">> \o m.bounceType
         \o <<"/">> \o m.bounceSubType \o <<",complaint:">>
         \o m.complaintSubType \o <<"/">> \o m.complaintFeedbackType
         \o <<",reject:">> \o m.reason \o <<"}">>

ImplementedTypes ==
    { <<"Bounce">>, <<"Complaint">>, <<"Reject">>, <<"Send">>, <<"Delivery">> }

\* the handler a well-formed message parses to
sesEventHandler(m) ==
    [Event |-> m, MessageId |-> m.messageId, To |-> m.to, From |-> m.from,
     Subject |-> m.subject, Details |-> Text(m)]

\* newSesEventHandler(sns, message) (handler sesEventHandler, err error) of
\* unnamed/part_002
newSesEventHandler(m) ==
    IF ~m.wellFormed
    THEN [handler |-> <<>>, err |-> Err(<<"unexpected end of JSON input">>, FALSE)]
    ELSE IF m.eventType \notin ImplementedTypes
    THEN [handler |-> <<>>,
          err |-> Err(<<"unimplemented event type: ">> \o m.eventType, FALSE)]
    ELSE [handler |-> sesEventHandler(m), err |-> NilErr]

\* parseSesEvent(message) (handler *sesEventHandler, err error)
parseSesEvent(m) ==
    IF ~m.wellFormed
    THEN [handler |-> <<>>, err |-> Err(<<"unexpected end of JSON input">>, FALSE)]
    ELSE [handler |-> sesEventHandler(m), err |-> NilErr]

\* sesEventHandler.logOutcome(outcome): the line it prints
logOutcome(evh, outcome) ==
    evh.Event.eventType \o <<" [Id:\"">> \o evh.MessageId
      \o <<"\" From:\"">> \o JoinStrings(evh.From, <<",">>)
      \o <<"\" To:\"">> \o JoinStrings(evh.To, <<",">>)
      \o <<"\" Subject:\"">> \o evh.Subject
      \o <<"\"]: ">> \o outcome \o <<": ">> \o evh.Details

\* recipientUpdater{evh.Agent.Remove, "removed", "error removing"}
Remover == [action |-> "Remove", successPrefix |-> <<"removed">>,
            errPrefix |-> <<"error removing">>]

\* recipientUpdater{evh.Agent.Restore, "restored", "error restoring"}
Restorer == [action |-> "Restore", successPrefix |-> <<"restored">>,
             errPrefix |-> <<"error restoring">>]

\* recipientUpdater.updateRecipient(ctx, email, reason), the action failing
\* or not
updateRecipient(up, mail, reason, fails) ==
    LET emailAndReason == <<" ">> \o mail \o <<" due to: ">> \o reason IN
    IF fails
    THEN up.errPrefix \o emailAndReason \o <<": ">> \o <<"agent error">>
    ELSE up.successPrefix \o emailAndReason

\* what a handler does when it is called: the lines it logs at once and the
\* turns of the loop of updateRecipients it leaves to be run, one blocking
\* Agent call each
Logged(line) == [lines |-> <<line>>, pending |-> <<>>]

\* sesEventHandler.updateRecipients(ctx, reason, up): one turn of its loop
\* for each address of evh.To, in order
updateRecipients(evh, reason, up) ==
    [lines |-> <<>>,
     pending |-> [n \in 1..Len(evh.To) |->
                    [evh |-> evh, up |-> up, email |-> evh.To[n],
                     reason |-> reason]]]

\* sesEventHandler.removeRecipients(ctx, reason)
removeRecipients(evh, reason) == updateRecipients(evh, reason, Remover)

\* sesEventHandler.restoreRecipients(ctx, reason)
restoreRecipients(evh, reason) == updateRecipients(evh, reason, Restorer)

\* a bounceHandler whose reason is the bounce type alone
bounceHandlerTypeOnly(evh) ==
    LET reason == evh.Event.bounceType IN
    IF evh.Event.bounceType = <<"Transient">>
    THEN Logged(logOutcome(evh, <<"not removing recipients: ">> \o reason))
    ELSE removeRecipients(evh, reason)

\* a bounceHandler that removes the recipients of every bounce
bounceHandlerAlwaysRemoves(evh) ==
    removeRecipients(evh, evh.Event.bounceType \o <<"/">>
                            \o evh.Event.bounceSubType)

\* bounceHandler.HandleEvent(ctx)
bounceHandler(evh) ==
    LET reason == evh.Event.bounceType \o <<"/">> \o evh.Event.bounceSubType IN
    IF evh.Event.bounceType = <<"Transient">>
    THEN Logged(logOutcome(evh, <<"not removing recipients: ">> \o reason))
    ELSE removeRecipients(evh, reason)

\* a reason taken from the feedback type alone
complaintReasonFeedbackOnly(subType, feedbackType) ==
    IF feedbackType # <<>> THEN feedbackType ELSE <<"unknown">>

\* a reason that is never replaced by "unknown"
complaintReasonNoUnknown(subType, feedbackType) ==
    IF subType # <<>> THEN subType ELSE feedbackType

\* complaintHandler.HandleEvent, lines 176-182: the reason
complaintReason(subType, feedbackType) ==
    IF subType # <<>> THEN subType
    ELSE IF feedbackType # <<>> THEN feedbackType
    ELSE <<"unknown">>

\* complaintHandler.HandleEvent(ctx)
complaintHandler(evh) ==
    LET reason == complaintReason(evh.Event.complaintSubType,
                                  evh.Event.complaintFeedbackType)
    IN  IF reason = <<"not-spam">>
        THEN restoreRecipients(evh, reason)
        ELSE removeRecipients(evh, reason)

\* rejectHandler.HandleEvent(ctx)
rejectHandler(evh) == Logged(logOutcome(evh, evh.Event.reason))

\* sesEventHandler.HandleEvent(ctx)
sesHandleEvent(evh) ==
    IF evh.Event.eventType = <<"Bounce">> THEN bounceHandler(evh)
    ELSE IF evh.Event.eventType = <<"Complaint">> THEN complaintHandler(evh)
    ELSE IF evh.Event.eventType = <<"Reject">> THEN rejectHandler(evh)
    ELSE IF evh.Event.eventType \in { <<"Send">>, <<"Delivery">> }
    THEN Logged(logOutcome(evh, <<"success">>))
    ELSE Logged(<<"unimplemented event type: ">> \o evh.Event.eventType)

\* the implementations of snsHandler
SnsImpls == {"sns.go", "part_002"}

\* a loop body that logs nothing for a record that fails to parse
handleRecordSilent(impl, msg) ==
    LET parsed == IF impl = "sns.go" THEN parseSesEvent(msg)
                  ELSE newSesEventHandler(msg)
    IN
    IF parsed.err.isErr
    THEN [lines |-> <<>>, pending |-> <<>>]
    ELSE sesHandleEvent(parsed.handler)

\* the body of the loop of snsHandler.HandleEvent for one record, up to the
\* first Agent call; in part_002 the handler made for a Send or Delivery
\* event logs "success" and the other handlers are the ones of sns.go
handleRecord(impl, msg) ==
    LET parsed == IF impl = "sns.go" THEN parseSesEvent(msg)
                  ELSE newSesEventHandler(msg)
    IN
    IF parsed.err.isErr
    THEN Logged(<<"parsing SES event from SNS failed: ">>
                  \o parsed.err.msg \o <<": ">> \o Text(msg))
    ELSE sesHandleEvent(parsed.handler)

\* batches of at most MaxRecords records
Batches == UNION { [1..n -> Messages] : n \in 0..MaxRecords }

\* snsHandler.HandleEvent(ctx, e) of implementation impl is called with the
\* records b
HandleEvent(impl, b) ==
    /\ snsPc = "idle"
    /\ snsImpl' = impl
    /\ batch' = b
    /\ idx' = 0
    /\ pending' = <<>>
    /\ logs' = <<>>
    /\ agentCalls' = <<>>
    /\ snsPc' = IF Len(b) = 0 THEN "done" ELSE "running"
    /\ UNCHANGED <<validatorVars, mailVars>>

\* tags each element of seq with the record number rec
Tagged(seq, rec) == [n \in 1..Len(seq) |-> [rec |-> rec, v |-> seq[n]]]

\* the loop over e.Records goes on to its next turn, or returns, once the
\* turns left of the current record are left
NextTurn(left) ==
    /\ idx' = IF Len(left) = 0 THEN idx + 1 ELSE idx
    /\ snsPc' = IF Len(left) = 0 /\ idx + 1 = Len(batch)
                THEN "done" ELSE "running"

\* a loop that returns at the first record that fails to parse
HandleRecordAborting ==
    /\ snsPc = "running"
    /\ Len(pending) = 0
    /\ LET msg == batch[idx + 1]
           out == handleRecord(snsImpl, msg)
       IN  /\ logs' = logs \o Tagged(out.lines, idx + 1)
           /\ pending' = out.pending
           /\ idx' = IF Len(out.pending) = 0 THEN idx + 1 ELSE idx
           /\ snsPc' = IF \/ Len(out.pending) = 0 /\ idx + 1 = Len(batch)
                          \/ ~msg.wellFormed
                       THEN "done" ELSE "running"
    /\ UNCHANGED <<snsImpl, batch, agentCalls, validatorVars, mailVars>>

\* snsHandler.HandleEvent: a turn of the loop over e.Records, up to the
\* first Agent call of the record
HandleRecord ==
    /\ snsPc = "running"
    /\ Len(pending) = 0
    /\ LET out == handleRecord(snsImpl, batch[idx + 1]) IN
       /\ logs' = logs \o Tagged(out.lines, idx + 1)
       /\ pending' = out.pending
       /\ NextTurn(out.pending)
    /\ UNCHANGED <<snsImpl, batch, agentCalls, validatorVars, mailVars>>

\* a loop of updateRecipients that is left at the first call that fails
UpdateRecipientUntilError ==
    /\ snsPc = "running"
    /\ Len(pending) > 0
    /\ \E fails \in BOOLEAN :
         LET turn == Head(pending)
             left == IF fails THEN <<>> ELSE Tail(pending)
         IN  /\ agentCalls' = Append(agentCalls,
                                [rec |-> idx + 1,
                                 v |-> [op |-> turn.up.action,
                                        arg |-> turn.email,
                                        fails |-> fails]])
             /\ logs' = Append(logs,
                          [rec |-> idx + 1,
                           v |-> logOutcome(turn.evh,
                                   updateRecipient(turn.up, turn.email,
                                                   turn.reason, fails))])
             /\ pending' = left
             /\ NextTurn(left)
    /\ UNCHANGED <<snsImpl, batch, validatorVars, mailVars>>

\* a loop of updateRecipients that undoes a call that failed with the
\* opposite Agent call
UpdateRecipientCompensating ==
    /\ snsPc = "running"
    /\ Len(pending) > 0
    /\ \E fails \in BOOLEAN :
         LET turn == Head(pending)
             opposite == IF turn.up.action = "Remove" THEN "Restore"
                         ELSE "Remove"
             call == [rec |-> idx + 1,
                      v |-> [op |-> turn.up.action, arg |-> turn.email,
                             fails |-> fails]]
             undo == [rec |-> idx + 1,
                      v |-> [op |-> opposite, arg |-> turn.email,
                             fails |-> FALSE]]
         IN  /\ agentCalls' = IF fails THEN agentCalls \o <<call, undo>>
                              ELSE Append(agentCalls, call)
             /\ logs' = Append(logs,
                          [rec |-> idx + 1,
                           v |-> logOutcome(turn.evh,
                                   updateRecipient(turn.up, turn.email,
                                                   turn.reason, fails))])
             /\ pending' = Tail(pending)
             /\ NextTurn(Tail(pending))
    /\ UNCHANGED <<snsImpl, batch, validatorVars, mailVars>>

\* sesEventHandler.updateRecipients: a turn of the loop over evh.To.  The
\* Agent call for the address returns, failing or not, and the line of its
\* outcome is logged
UpdateRecipient ==
    /\ snsPc = "running"
    /\ Len(pending) > 0
    /\ \E fails \in BOOLEAN :
         LET turn == Head(pending) IN
         /\ agentCalls' = Append(agentCalls,
                            [rec |-> idx + 1,
                             v |-> [op |-> turn.up.action,
                                    arg |-> turn.email, fails |-> fails]])
         /\ logs' = Append(logs,
                      [rec |-> idx + 1,
                       v |-> logOutcome(turn.evh,
                               updateRecipient(turn.up, turn.email,
                                               turn.reason, fails))])
    /\ pending' = Tail(pending)
    /\ NextTurn(Tail(pending))
    /\ UNCHANGED <<snsImpl, batch, validatorVars, mailVars>>

----------------------------------------------------------------------------
\* The inbound mail handler (mailtoHandler).

\* strings.ToUpper of one token
UpperToken(t) ==
    CASE t \in {"pass", "Pass"} -> "PASS"
      [] t \in {"fail", "Fail"} -> "FAIL"
      [] t \in {"reject", "Reject"} -> "REJECT"
      [] t \in {"none", "None"} -> "NONE"
      [] OTHER -> t

\* strings.ToUpper(s)
ToUpper(s) == [n \in 1..Len(s) |-> UpperToken(s[n])]

EmailDomain == <<"mike-bland.com">>

\* "unsubscribe@" + emailDomain
unsubscribeAddr == <<"unsubscribe@">> \o EmailDomain

\* The inbound mails explored: the SES receipt's verdicts as received, and
\* a subject that is an unsubscribe command or is not.
InboundMails ==
    [From : { << <<"mbland@acm.org">> >> },
     To : { <<unsubscribeAddr>> },
     Subject : { <<"mbland@acm.org", " ", "0123-4567">>, <<"hello">> },
     MessageId : { <<"deadbeef">> },
     Recipients : { <<unsubscribeAddr>> },
     SPFVerdict : { <<"PASS">>, <<"FAIL">>, <<"Fail">> },
     DKIMVerdict : { <<"PASS">>, <<"FAIL">>, <<"fail">> },
     SpamVerdict : { <<"PASS">>, <<"FAIL">>, <<"fail">> },
     VirusVerdict : { <<"PASS">>, <<"FAIL">>, <<"Fail">> },
     DMARCVerdict : { <<"PASS">>, <<"FAIL">>, <<"fail">> },
     DMARCPolicy : { <<"none">>, <<"REJECT">>, <<"reject">> }]

\* a mailtoEvent that upper-cases the DMARC verdict and policy only
newMailtoEventDmarcOnly(ses) ==
    [From |-> ses.From, To |-> ses.To, Subject |-> ses.Subject,
     MessageId |-> ses.MessageId, Recipients |-> ses.Recipients,
     SpfVerdict |-> ses.SPFVerdict,
     DkimVerdict |-> ses.DKIMVerdict,
     SpamVerdict |-> ses.SpamVerdict,
     VirusVerdict |-> ses.VirusVerdict,
     DmarcVerdict |-> ToUpper(ses.DMARCVerdict),
     DmarcPolicy |-> ToUpper(ses.DMARCPolicy)]

\* newMailtoEvent(ses)
newMailtoEvent(ses) ==
    [From |-> ses.From, To |-> ses.To, Subject |-> ses.Subject,
     MessageId |-> ses.MessageId, Recipients |-> ses.Recipients,
     SpfVerdict |-> ToUpper(ses.SPFVerdict),
     DkimVerdict |-> ToUpper(ses.DKIMVerdict),
     SpamVerdict |-> ToUpper(ses.SpamVerdict),
     VirusVerdict |-> ToUpper(ses.VirusVerdict),
     DmarcVerdict |-> ToUpper(ses.DMARCVerdict),
     DmarcPolicy |-> ToUpper(ses.DMARCPolicy)]

\* what Bouncer.Bounce may return: (bounceMessageId, err)
BounceResults == {
    [id |-> <<"0123456789">>, fails |-> FALSE],
    [id |-> <<>>, fails |-> FALSE],
    [id |-> <<>>, fails |-> TRUE] }

\* what Agent.Unsubscribe may return: (result, err)
UnsubscribeResults == {
    [result |-> <<"Unsubscribed">>, fails |-> FALSE],
    [result |-> <<"NotSubscribed">>, fails |-> FALSE],
    [result |-> <<"Invalid">>, fails |-> TRUE] }

\* bounceIfDmarcFails: whether Bouncer.Bounce is called
dmarcFails(ev) ==
    ev.DmarcVerdict = <<"FAIL">> /\ ev.DmarcPolicy = <<"REJECT">>

\* a spam test that leaves out the virus verdict
isSpamButForVirus(ev) ==
    \/ ev.SpfVerdict = <<"FAIL">>
    \/ ev.DkimVerdict = <<"FAIL">>
    \/ ev.SpamVerdict = <<"FAIL">>

\* isSpam(ev)
isSpam(ev) ==
    \/ ev.SpfVerdict = <<"FAIL">>
    \/ ev.DkimVerdict = <<"FAIL">>
    \/ ev.SpamVerdict = <<"FAIL">>
    \/ ev.VirusVerdict = <<"FAIL">>

\* parseMailtoEvent(ev, unsubscribeAddr): the subject of a mail to the
\* unsubscribe address carries the subscriber's address and token
parseMailtoEvent(ev, addr) ==
    IF ev.To = <<addr>> /\ Len(ev.Subject) = 3 /\ ev.Subject[2] = " "
    THEN [Email |-> <<ev.Subject[1]>>, Uid |-> <<ev.Subject[3]>>,
          err |-> NilErr]
    ELSE [Email |-> <<>>, Uid |-> <<>>,
          err |-> Err(<<"not an unsubscribe command">>, FALSE)]

\* mailtoHandler.logOutcome(ev, outcome): the line it prints
mailtoLogOutcome(ev, outcome) ==
    <<"unsubscribe [Id:\"">> \o ev.MessageId
      \o <<"\" From:\"">> \o JoinStrings(ev.From, <<",">>)
      \o <<"\" To:\"">> \o JoinStrings(ev.To, <<",">>)
      \o <<"\" Subject:\"">> \o ev.Subject
      \o <<"\"]: ">> \o outcome

\* handleMailtoEvent, lines 81-84: the outcome that what Bounce returned
\* settles, <<>> if it settles none
bounceOutcome(b) ==
    IF b.fails THEN <<"DMARC bounce failed: ", "bounce error">>
    ELSE IF b.id # <<>> THEN <<"DMARC bounced with message ID: ">> \o b.id
    ELSE <<>>

\* handleMailtoEvent, lines 85-88: the outcome settled before the Agent is
\* called, <<>> if Agent.Unsubscribe is to be called
outcomeBeforeUnsubscribe(ev) ==
    LET op == parseMailtoEvent(ev, unsubscribeAddr) IN
    IF isSpam(ev) THEN <<"marked as spam, ignored">>
    ELSE IF op.err.isErr
    THEN <<"failed to parse, ignoring: ">> \o op.err.msg
    ELSE <<>>

\* handleMailtoEvent, lines 79 and 89-93: the outcome after Agent.Unsubscribe
\* returned u
unsubscribeOutcome(u) ==
    IF u.fails THEN <<"error: ", "agent error">>
    ELSE IF u.result # <<"Unsubscribed">> THEN <<"failed: ">> \o u.result
    ELSE <<"success">>

\* a small set of inbound mails for events of several records: a clean
\* unsubscribe command, a mail that is no command, a mail whose SPF verdict
\* fails and a mail that DMARC rejects
FewMails ==
    LET clean == [From |-> << <<"mbland@acm.org">> >>,
                  To |-> <<unsubscribeAddr>>,
                  Subject |-> <<"mbland@acm.org", " ", "0123-4567">>,
                  MessageId |-> <<"deadbeef">>,
                  Recipients |-> <<unsubscribeAddr>>,
                  SPFVerdict |-> <<"PASS">>, DKIMVerdict |-> <<"PASS">>,
                  SpamVerdict |-> <<"PASS">>, VirusVerdict |-> <<"PASS">>,
                  DMARCVerdict |-> <<"PASS">>, DMARCPolicy |-> <<"none">>]
    IN  { clean,
          [clean EXCEPT !.Subject = <<"hello">>],
          [clean EXCEPT !.SPFVerdict = <<"Fail">>],
          [clean EXCEPT !.DMARCVerdict = <<"fail">>,
                        !.DMARCPolicy = <<"reject">>] }

\* e.Records of the events explored: every inbound mail on its own, and the
\* events of at most MaxRecords of the few mails
MailBatches ==
    { <<m>> : m \in InboundMails }
      \cup UNION { [1..n -> FewMails] : n \in 0..MaxRecords }

\* mailtoHandler.HandleEvent(e) is called with the records recs
MailHandleEvent(recs) ==
    /\ mailPc = "idle"
    /\ mailBatch' = recs
    /\ mailIdx' = 0
    /\ mailEv' = <<>>
    /\ mailCalls' = <<>>
    /\ mailLogs' = <<>>
    /\ mailPc' = IF Len(recs) = 0 THEN "done" ELSE "running"
    /\ UNCHANGED <<validatorVars, snsVars>>

\* handleMailtoEvent, line 94, and the loop of HandleEvent going on to its
\* next record or returning
LogAndReturn(ev, outcome) ==
    /\ mailLogs' = Append(mailLogs, [rec |-> mailIdx + 1,
                                     v |-> mailtoLogOutcome(ev, outcome)])
    /\ mailIdx' = mailIdx + 1
    /\ mailPc' = IF mailIdx + 1 = Len(mailBatch) THEN "done" ELSE "running"

\* handleMailtoEvent, lines 85-89, up to the call of Agent.Unsubscribe
AfterBounce(ev) ==
    IF outcomeBeforeUnsubscribe(ev) # <<>>
    THEN LogAndReturn(ev, outcomeBeforeUnsubscribe(ev))
    ELSE mailPc' = "Unsubscribe" /\ UNCHANGED <<mailLogs, mailIdx>>

\* mailtoHandler.HandleEvent: a turn of the loop over e.Records, up to the
\* first call to an outside service
handleMailtoEvent ==
    /\ mailPc = "running"
    /\ LET ev == newMailtoEvent(mailBatch[mailIdx + 1]) IN
       /\ mailEv' = ev
       /\ IF dmarcFails(ev)
          THEN mailPc' = "Bounce" /\ UNCHANGED <<mailLogs, mailIdx>>
          ELSE AfterBounce(ev)
    /\ UNCHANGED <<mailBatch, mailCalls, validatorVars, snsVars>>

\* a handler that returns without a line when Bouncer.Bounce fails
BounceQuietOnFailure ==
    /\ mailPc = "Bounce"
    /\ \E b \in BounceResults :
         /\ mailCalls' = Append(mailCalls,
                           [rec |-> mailIdx + 1, op |-> "Bounce",
                            arg |-> mailEv.Recipients, ans |-> b])
         /\ IF b.fails
            THEN /\ mailIdx' = mailIdx + 1
                 /\ mailPc' = IF mailIdx + 1 = Len(mailBatch)
                              THEN "done" ELSE "running"
                 /\ UNCHANGED mailLogs
            ELSE IF bounceOutcome(b) # <<>>
            THEN LogAndReturn(mailEv, bounceOutcome(b))
            ELSE AfterBounce(mailEv)
    /\ UNCHANGED <<mailBatch, mailEv, validatorVars, snsVars>>

\* bounceIfDmarcFails, lines 112-114: Bouncer.Bounce returns
Bounce ==
    /\ mailPc = "Bounce"
    /\ \E b \in BounceResults :
         /\ mailCalls' = Append(mailCalls,
                           [rec |-> mailIdx + 1, op |-> "Bounce",
                            arg |-> mailEv.Recipients, ans |-> b])
         /\ IF bounceOutcome(b) # <<>>
            THEN LogAndReturn(mailEv, bounceOutcome(b))
            ELSE AfterBounce(mailEv)
    /\ UNCHANGED <<mailBatch, mailEv, validatorVars, snsVars>>

\* handleMailtoEvent, line 89: Agent.Unsubscribe(op.Email, op.Uid) returns
Unsubscribe ==
    /\ mailPc = "Unsubscribe"
    /\ \E u \in UnsubscribeResults :
         LET op == parseMailtoEvent(mailEv, unsubscribeAddr) IN
         /\ mailCalls' = Append(mailCalls,
                           [rec |-> mailIdx + 1, op |-> "Unsubscribe",
                            arg |-> <<op.Email, op.Uid>>, ans |-> u])
         /\ LogAndReturn(mailEv, unsubscribeOutcome(u))
    /\ UNCHANGED <<mailBatch, mailEv, validatorVars, snsVars>>

----------------------------------------------------------------------------
\* Specifications.

InitValidator ==
    /\ pc = "idle"
    /\ ncalls = 0
    /\ address = <<>>
    /\ email = <<>>
    /\ domain = <<>>
    /\ ctxDone = FALSE
    /\ cancelAt = -1
    /\ suppressed = {}
    /\ calls = <<>>
    /\ loop = InitLoop
    /\ failure = NoFailure
    /\ err = NilErr

InitSns ==
    /\ snsPc = "idle"
    /\ snsImpl = "sns.go"
    /\ batch = <<>>
    /\ idx = 0
    /\ pending = <<>>
    /\ logs = <<>>
    /\ agentCalls = <<>>

InitMailto ==
    /\ mailPc = "idle"
    /\ mailBatch = <<>>
    /\ mailIdx = 0
    /\ mailEv = <<>>
    /\ mailCalls = <<>>
    /\ mailLogs = <<>>

Init == InitValidator /\ InitSns /\ InitMailto

NextValidator ==
    \/ \E a \in Addresses : ValidateAddress(a)
    \/ Cancel
    \/ IsSuppressed
    \/ LookupMX
    \/ LookupHost
    \/ LookupAddr
    \/ LookupHostBack
    \/ Suppress

\* the address validator alone
SpecValidator == Init /\ [][NextValidator]_vars

----------------------------------------------------------------------------
\* Properties of ValidateAddress.

Lookups == {"LookupMX", "LookupHost", "LookupAddr"}

\* call c is a Resolver call that failed with an error other than not-found
InfraFailure(c) ==
    /\ c.op \in Lookups
    /\ Len(c.ans.values) = 0
    /\ c.ans.e = "other"

\* call c is a LookupMX call answering no records with a not-found error
MXNotFound(c) ==
    /\ c.op = "LookupMX"
    /\ Len(c.ans.values) = 0
    /\ c.ans.e = "notfound"

SuppressInvoked == \E n \in 1..Len(calls) : calls[n].op = "Suppress"

\* the call returned Accepted
Accepted == pc = "done" /\ ~failure.isFail /\ ~err.isErr

\* C1 as stated: if any Resolver call of a ValidateAddress call failed with
\* an error other than not-found, Suppress is not invoked in that call.
C1_NoSuppressAfterAnyInfraFailure ==
    (\E n \in 1..Len(calls) : InfraFailure(calls[n])) => ~SuppressInvoked

\* C1 amended: Suppress is invoked only after LookupMX returned at least one
\* record; if the LookupMX call failed with an error other than not-found
\* and returned no records, Suppress is never invoked in that call.
C1_NoSuppressAfterMXInfraFailure ==
    (\E n \in 1..Len(calls) :
        calls[n].op = "LookupMX" /\ InfraFailure(calls[n])) => ~SuppressInvoked

\* a call returned after LookupMX failed with an infrastructure error
C1_Witness ==
    /\ pc = "done"
    /\ \E n \in 1..Len(calls) :
         calls[n].op = "LookupMX" /\ InfraFailure(calls[n])
    /\ ~ctxDone

\* C2: if LookupMX conclusively returns zero records (an empty answer with
\* a not-found error), ValidateAddress returns Indeterminate: a non-nil err
\* and a nil failure, and not a rejection.
C2_MXNotFoundIsIndeterminate ==
    (pc = "done" /\ \E n \in 1..Len(calls) : MXNotFound(calls[n]))
        => (err.isErr /\ ~failure.isFail)

\* C3: if a Resolver call failed with an infrastructure error and the
\* address is not accepted, ValidateAddress returns err != nil and a nil
\* failure.
C3_InfraFailureOnErrorChannel ==
    (/\ pc = "done"
     /\ \E n \in 1..Len(calls) : InfraFailure(calls[n])
     /\ ~Accepted)
        => (err.isErr /\ ~failure.isFail)

\* ctx was cancelled while lookup number cancelAt + 1 was in progress
CancelledMidChain ==
    /\ cancelAt >= 1
    /\ Len(calls) > cancelAt
    /\ calls[cancelAt + 1].op \in Lookups

\* C4: if ctx is cancelled while the DNS chain is in progress, the call
\* returns a non-nil err and a nil failure, starts no lookup after the one
\* in progress, and does not invoke Suppress.
C4_CancelStopsTheChain ==
    (pc = "done" /\ CancelledMidChain)
        => /\ err.isErr
           /\ ~failure.isFail
           /\ Len(calls) = cancelAt + 1

\* C9: a ValidateAddress call never returns both a rejection and an error.
C9_FailureAndErrExclusive == ~(failure.isFail /\ err.isErr)

\* a call returned a rejection made from a checkMailHosts error
C9_Witness ==
    /\ pc = "done"
    /\ failure.isFail
    /\ \E n \in 1..Len(calls) : calls[n].op \in Lookups

\* every MX candidate of the call was tried and failed host verification
AllCandidatesFailed ==
    /\ pc = "done"
    /\ Len(loop.mxRecords) > 0
    /\ Len(loop.errs) = Len(loop.mxRecords)

\* message msg has a diagnostic naming mail host h
NamesHost(msg, h) ==
    \/ Contains(msg, <<"no records for ">> \o h)
    \/ Contains(msg, <<": failed to resolve ">> \o h \o <<": ">>)
    \/ Contains(msg, <<"reverse lookup of addresses for ">> \o h
                       \o <<" failed: ">>)

\* C10: if LookupMX returns at least one record and every candidate fails
\* host verification, Suppress is invoked exactly once, with the canonical
\* parsed address, after a LookupHost for every candidate, and the returned
\* rejection names every MX host that was attempted.
C10_SuppressOnceAndNameEveryHost ==
    AllCandidatesFailed =>
        /\ Cardinality({n \in 1..Len(calls) : calls[n].op = "Suppress"}) = 1
        /\ calls[Len(calls)].op = "Suppress"
        /\ calls[Len(calls)].arg = parseAddress(address).email
        /\ \A m \in 1..Len(loop.mxRecords) :
             /\ \E n \in 1..(Len(calls) - 1) :
                  /\ calls[n].op = "LookupHost"
                  /\ calls[n].arg = loop.mxRecords[m]
             /\ NamesHost(failure.Reason, loop.mxRecords[m])
        /\ failure.isFail
        /\ ~err.isErr

\* two MX candidates failed for an address given with a display name
C10_Witness ==
    /\ AllCandidatesFailed
    /\ Len(loop.mxRecords) = 2
    /\ address # email
    /\ ~ctxDone

\* the LookupMX call of the current ValidateAddress call answered no records
MXYieldedNothing ==
    \E n \in 1..Len(calls) :
        calls[n].op = "LookupMX" /\ Len(calls[n].ans.values) = 0

\* C11: if LookupMX yields zero MX records, through a not-found result or
\* through any other resolver error, Suppress is never invoked and no
\* LookupHost or LookupAddr call is made in that ValidateAddress call.
C11_NoRecordsEndsTheCall ==
    MXYieldedNothing =>
        /\ pc = "done"
        /\ calls[Len(calls)].op = "LookupMX"
        /\ \A n \in 1..Len(calls) :
             calls[n].op \notin {"Suppress", "LookupHost", "LookupAddr"}

\* a call ended by a LookupMX that gave no records and no not-found error
C11_Witness ==
    /\ MXYieldedNothing
    /\ calls[Len(calls)].ans.e \in {"nil", "other"}
    /\ failure.isFail
    /\ ~ctxDone

\* the elements of sequence s
Range(s) == { s[n] : n \in 1..Len(s) }

\* the positions in calls of the calls of method op
CallsTo(op) == { n \in 1..Len(calls) : calls[n].op = op }

\* the address parsed, passed the static filters and IsSuppressed answered
\* false without an error
ReachedDNS ==
    /\ Len(calls) >= 1
    /\ calls[1].op = "IsSuppressed"
    /\ ~calls[1].ans.fails
    /\ ~calls[1].ans.result

\* the Resolver's answers of this call hold an MX candidate h, an address a
\* of LookupHost(h) and a name n of LookupAddr(a) with a in LookupHost(n);
\* the Resolver answers call by call, so the LookupHost(n) meant is the one
\* made for the names of that LookupAddr(a) call
VerifiedChain ==
    \E m \in CallsTo("LookupMX"), p, r \in CallsTo("LookupHost"),
       q \in CallsTo("LookupAddr") :
        /\ m < p /\ p < q /\ q < r
        /\ \A s \in (q + 1)..(r - 1) : calls[s].op # "LookupAddr"
        /\ calls[p].arg \in Range(calls[m].ans.values)
        /\ calls[q].arg \in Range(calls[p].ans.values)
        /\ calls[r].arg \in Range(calls[q].ans.values)
        /\ calls[q].arg \in Range(calls[r].ans.values)

\* every MX candidate, every address of a candidate and every name of an
\* address was looked up
EveryChainTried ==
    /\ \A m \in CallsTo("LookupMX") : \A h \in Range(calls[m].ans.values) :
         \E p \in CallsTo("LookupHost") : p > m /\ calls[p].arg = h
    /\ \A p \in CallsTo("LookupHost") :
         calls[p].arg \in Range(loop.mxRecords) =>
           \A a \in Range(calls[p].ans.values) :
             \E q \in CallsTo("LookupAddr") : q > p /\ calls[q].arg = a
    /\ \A q \in CallsTo("LookupAddr") : \A n \in Range(calls[q].ans.values) :
         \E r \in CallsTo("LookupHost") : r > q /\ calls[r].arg = n

\* C12: when the address parses, passes the static policy filters and is
\* not suppressed, ValidateAddress returns Accepted (nil failure, nil err)
\* if and only if there is an MX candidate h, an address a in LookupHost(h)
\* and a name n in LookupAddr(a) such that a is in LookupHost(n); a call
\* that is not accepted has looked up every such h, a and n.
C12_AcceptedIffChainVerifies ==
    (pc = "done" /\ ReachedDNS) =>
        /\ Accepted <=> VerifiedChain
        /\ ~Accepted => (MXYieldedNothing \/ EveryChainTried)

\* a call accepted through its second MX candidate, the first having failed
C12_Witness ==
    /\ Accepted
    /\ ReachedDNS
    /\ VerifiedChain
    /\ loop.i = 2


\* the first call of the current ValidateAddress call is an IsSuppressed
\* that reported the address suppressed, or failed
SuppressedOrFailed ==
    /\ Len(calls) >= 1
    /\ calls[1].op = "IsSuppressed"
    /\ (calls[1].ans.result \/ calls[1].ans.fails)

\* C13: Resolver calls happen only after IsSuppressed returned false
\* without error.  If IsSuppressed reports true, ValidateAddress returns a
\* "suppressed email address" rejection with nil err and makes no Resolver
\* call; if IsSuppressed returns an error, ValidateAddress returns that
\* error with nil failure and makes no Resolver call and no Suppress call.
C13_SuppressionGatesTheResolver ==
    /\ \A n \in 1..Len(calls) :
         calls[n].op \in Lookups \cup {"Suppress"} => (n > 1 /\ ReachedDNS)
    /\ \A n \in 2..Len(calls) : calls[n].op # "IsSuppressed"
    /\ SuppressedOrFailed =>
         /\ pc = "done"
         /\ Len(calls) = 1
         /\ calls[1].arg = parseAddress(address).email
         /\ IF calls[1].ans.fails
            THEN /\ err = Err(<<"IsSuppressed failed">>, TRUE)
                 /\ ~failure.isFail
            ELSE /\ ~err.isErr
                 /\ failure = ValidationFailure(
                                 <<"suppressed email address: ">> \o address)

\* an address suppressed by an earlier call is validated again, under a
\* display name
C13_Witness ==
    /\ pc = "done"
    /\ ncalls = 2
    /\ SuppressedOrFailed
    /\ calls[1].ans.result
    /\ address # email

\* the labels of the domain of address a, and its local part up to a "+"
LabelsOf(a) == Split(parseAddress(a).domain, ".")
UntaggedUser(a) ==
    LET user == parseAddress(a).user
        plus == FirstIndex(user, "+")
    IN  IF plus = 0 THEN user ELSE SubSeq(user, 1, plus - 1)

\* address a matches a static policy filter: deny-listed local part after
\* stripping a "+tag" suffix, deny-listed domain or primary domain,
\* bracketed literal, bare IP literal
MatchesPolicyFilter(a) ==
    LET dom == parseAddress(a).domain
        labels == LabelsOf(a)
    IN  \/ UntaggedUser(a) \in { <<"postmaster">>, <<"abuse">> }
        \/ dom \in { <<"localhost">>, <<"example", ".", "com">> }
        \/ /\ Len(labels) >= 2
           /\ labels[Len(labels) - 1] \o <<".">> \o labels[Len(labels)]
                 \in { <<"example", ".", "com">> }
        \/ dom[1] = "["
        \/ /\ Len(labels) = 4
           /\ \A n \in 1..4 : labels[n] \in { <<o>> : o \in Octets }

\* C14: if the address fails to parse, or matches the static policy
\* filters, ValidateAddress returns a rejection with nil err and makes no
\* Suppressor call and no Resolver call.
C14_StaticRejectionMakesNoCall ==
    (/\ pc # "idle"
     /\ \/ parseAddress(address).err.isErr
        \/ MatchesPolicyFilter(address))
        => /\ pc = "done"
           /\ failure.isFail
           /\ ~err.isErr
           /\ calls = <<>>

\* a deny-listed local part with a "+tag" suffix was rejected
C14_Witness ==
    /\ pc = "done"
    /\ ~parseAddress(address).err.isErr
    /\ MatchesPolicyFilter(address)
    /\ FirstIndex(parseAddress(address).user, "+") > 0
    /\ calls = <<>>

\* the records the LookupMX call of the current call returned
MXReturned ==
    IF CallsTo("LookupMX") = {} THEN <<>>
    ELSE calls[CHOOSE m \in CallsTo("LookupMX") : TRUE].ans.values

\* the LookupHost calls made to verify an MX candidate, in call order
CandidateLookups ==
    SelectSeq(calls, LAMBDA c : c.op = "LookupHost"
                                  /\ c.arg \in Range(MXReturned))

\* the MX candidate being verified when call number n was made
CandidateAt(n) ==
    Len(SelectSeq(SubSeq(calls, 1, n),
                  LAMBDA c : c.op = "LookupHost"
                               /\ c.arg \in Range(MXReturned)))

\* call number r is a LookupHost of a reverse name that resolves to the
\* address whose LookupAddr gave that name: its MX candidate passes
PassesAt(r) ==
    /\ calls[r].op = "LookupHost"
    /\ \E q \in CallsTo("LookupAddr") :
         /\ q < r
         /\ \A s \in (q + 1)..(r - 1) : calls[s].op # "LookupAddr"
         /\ calls[r].arg \in Range(calls[q].ans.values)
         /\ calls[q].arg \in Range(calls[r].ans.values)

\* C15: MX candidates are verified one at a time in exactly the order
\* LookupMX returned them; as soon as one candidate passes host
\* verification, no lookup is made for any later candidate, Suppress is not
\* called, and the call returns Accepted.
C15_CandidatesInOrderFirstPassWins ==
    /\ Len(CandidateLookups) <= Len(MXReturned)
    /\ \A n \in 1..Len(CandidateLookups) :
         CandidateLookups[n].arg = MXReturned[n]
    /\ \A r \in 1..Len(calls) :
         PassesAt(r) =>
           /\ r = Len(calls)
           /\ Accepted
           /\ ~SuppressInvoked
           /\ \A n \in (CandidateAt(r) + 1)..Len(MXReturned) :
                \A c \in 1..Len(calls) : calls[c].arg # MXReturned[n]
    /\ (pc \in {"Suppress", "done"} /\ ReachedDNS /\ ~Accepted
          /\ ~MXYieldedNothing)
         => Len(CandidateLookups) = Len(MXReturned)

\* the first of two MX candidates passed
C15_Witness ==
    /\ Accepted
    /\ Len(MXReturned) = 2
    /\ Len(CandidateLookups) = 1
    /\ PassesAt(Len(calls))

\* sequence s begins with the sequence prefix
StartsWith(s, prefix) ==
    Len(s) >= Len(prefix) /\ SubSeq(s, 1, Len(prefix)) = prefix

\* what the trace of the current call shows of Suppress: at most one call,
\* made last, and none in a call that is accepted or that stopped at the
\* parse, policy or suppression checks
SuppressFrame ==
    /\ Cardinality(CallsTo("Suppress")) <= 1
    /\ \A n \in CallsTo("Suppress") : n = Len(calls) /\ pc = "done"
    /\ Accepted => CallsTo("Suppress") = {}
    /\ (pc # "idle" /\ (\/ parseAddress(address).err.isErr
                        \/ MatchesPolicyFilter(address)
                        \/ SuppressedOrFailed))
         => CallsTo("Suppress") = {}

\* C27: Suppress is the only mutating call ValidateAddress makes: the
\* suppression list changes only in the step that calls Suppress; Suppress
\* is invoked at most once per call, it is the last external call of the
\* call, and it is never invoked in a call that returns Accepted or that
\* stopped at parse, policy or suppression checks.
C27_SuppressIsTheOnlyMutation ==
    /\ [][suppressed' # suppressed =>
            /\ pc = "Suppress"
            /\ calls'[Len(calls')].op = "Suppress"
            /\ suppressed' = suppressed \cup {email}]_vars
    /\ []SuppressFrame

\* a call with one MX candidate ended with a Suppress that succeeded
C27_Witness ==
    /\ pc = "done"
    /\ Len(loop.mxRecords) = 1
    /\ CallsTo("Suppress") = {Len(calls)}
    /\ ~calls[Len(calls)].ans.fails
    /\ email \in suppressed

\* C28: the lookup wrapper classifies every resolver answer in one of three
\* ways: at least one record gives the records with a nil error, even if
\* the resolver also returned an error; zero records with a not-found DNS
\* error gives a "no records for <target>" error that is not
\* ops.ErrExternal; zero records with any other error, or no error at all,
\* gives an error wrapping ops.ErrExternal.
C28_LookupClassifiesEveryAnswer ==
    \A n \in 1..Len(calls) :
        calls[n].op \in Lookups =>
            LET ans == calls[n].ans
                r == lookup(ans, calls[n].arg)
            IN  /\ r.values = ans.values
                /\ IF Len(ans.values) > 0
                   THEN ~r.err.isErr
                   ELSE IF ans.e = "notfound"
                   THEN /\ r.err.isErr
                        /\ ~r.err.ext
                        /\ r.err.msg = <<"no records for ">> \o calls[n].arg
                   ELSE /\ r.err.isErr
                        /\ r.err.ext
                        /\ Contains(r.err.msg,
                                    <<": failed to resolve ">> \o calls[n].arg)
                        /\ ~Contains(r.err.msg, <<"no records for ">>)

\* one call got records together with an error, a not-found answer, and no
\* records with another error
C28_Witness ==
    \E a, b, c \in 1..Len(calls) :
        /\ calls[a].op \in Lookups /\ calls[b].op \in Lookups
        /\ calls[c].op \in Lookups
        /\ Len(calls[a].ans.values) > 0 /\ calls[a].ans.e = "other"
        /\ MXNotFound(calls[b]) \/
             (Len(calls[b].ans.values) = 0 /\ calls[b].ans.e = "notfound")
        /\ InfraFailure(calls[c])

\* the current call ended with a Suppress that succeeded
SuppressedByThisCall ==
    /\ Len(calls) >= 1
    /\ calls[Len(calls)].op = "Suppress"
    /\ ~calls[Len(calls)].ans.fails

\* C29: after a ValidateAddress call has suppressed an address, every later
\* ValidateAddress call for the same address makes no DNS lookup and does
\* not call Suppress again, and returns the "suppressed email address"
\* rejection once IsSuppressed has answered.
C29_SuppressedAddressIsNotLookedUpAgain ==
    (pc # "idle" /\ email \in suppressed /\ ~SuppressedByThisCall) =>
        /\ \A n \in 1..Len(calls) : calls[n].op = "IsSuppressed"
        /\ Len(calls) <= 1
        /\ pc \in {"IsSuppressed", "done"}
        /\ pc = "done" =>
             /\ Len(calls) = 1
             /\ ~calls[1].ans.fails =>
                  /\ ~err.isErr
                  /\ failure = ValidationFailure(
                                  <<"suppressed email address: ">> \o address)

\* the address suppressed by the first call was rejected by the second
C29_Witness ==
    /\ pc = "done"
    /\ ncalls = 2
    /\ email \in suppressed
    /\ Len(calls) = 1
    /\ calls[1].ans.result
    /\ failure.isFail

\* the current call ended with a Suppress that failed
SuppressFailed ==
    /\ pc = "done"
    /\ Len(calls) >= 1
    /\ calls[Len(calls)].op = "Suppress"
    /\ calls[Len(calls)].ans.fails

\* C30: if Suppress itself returns an error after every MX candidate failed
\* verification, ValidateAddress still returns a rejection (non-nil
\* failure, nil err) whose reason contains both the per-host DNS
\* diagnostics and the suppression error; the suppression failure is never
\* surfaced through err and the address is left unsuppressed.
C30_SuppressErrorStaysInTheRejection ==
    SuppressFailed =>
        /\ failure.isFail
        /\ ~err.isErr
        /\ StartsWith(failure.Reason,
                      <<"address failed DNS validation: ">> \o address
                        \o <<": ", "no valid MX hosts for ">> \o domain)
        /\ \A m \in 1..Len(loop.mxRecords) :
             NamesHost(failure.Reason, loop.mxRecords[m])
        /\ Contains(failure.Reason, <<"\n", "Suppress failed">>)
        /\ email \notin suppressed

\* Suppress failed after two MX candidates failed
C30_Witness ==
    /\ SuppressFailed
    /\ Len(loop.mxRecords) = 2
    /\ Len(loop.errs) = 2
    /\ failure.isFail

NextSns ==
    \/ /\ snsPc = "idle"
       /\ \E impl \in SnsImpls, b \in Batches : HandleEvent(impl, b)
    \/ HandleRecord
    \/ UpdateRecipient

\* the SES event dispatcher alone
SpecSns == Init /\ [][NextSns]_vars


\* the batches of the termination check: records that fail to parse, of an
\* unrecognised type, without Agent calls and with two Agent calls
LiveBatches ==
    LET live == { m \in Messages :
                    \/ ~m.wellFormed
                    \/ m.eventType \in { <<"Open">>, <<"Send">> }
                    \/ /\ m.eventType = <<"Bounce">>
                       /\ m.bounceType = <<"Permanent">>
                       /\ Len(m.to) = 2 }
    IN  UNION { [1..n -> live] : n \in 0..MaxRecords }

NextSnsLive ==
    \/ /\ snsPc = "idle"
       /\ \E impl \in SnsImpls, b \in LiveBatches : HandleEvent(impl, b)
    \/ HandleRecord
    \/ UpdateRecipient

\* the dispatcher with every Agent call returning: the loop over the
\* records and the loop over the recipients always take their next turn
SpecSnsLive ==
    Init /\ [][NextSnsLive]_vars
         /\ WF_vars(HandleRecord) /\ WF_vars(UpdateRecipient)


NextMailto ==
    \/ /\ mailPc = "idle"
       /\ \E recs \in MailBatches : MailHandleEvent(recs)
    \/ handleMailtoEvent
    \/ Bounce
    \/ Unsubscribe

\* the inbound mail handler alone
SpecMailto == Init /\ [][NextMailto]_vars

Next == NextValidator \/ NextSns \/ NextMailto

\* the three components side by side
Spec == Init /\ [][Next]_vars

----------------------------------------------------------------------------
\* Properties of the SES event dispatcher.

\* the log lines, and the Agent calls, made for record number r
LinesOf(r) == SelectSeq(logs, LAMBDA t : t.rec = r)
CallsOf(r) == SelectSeq(agentCalls, LAMBDA t : t.rec = r)

IsComplaint(m) == m.wellFormed /\ m.eventType = <<"Complaint">>

\* C5 as stated: a Complaint restores its recipients if and only if its
\* complaintFeedbackType is "not-spam", whatever its complaintSubType, and
\* removes them otherwise.
C5_RestoreIffFeedbackNotSpam ==
    \A r \in 1..idx :
        IsComplaint(batch[r]) =>
            \A n \in 1..Len(CallsOf(r)) :
                (CallsOf(r)[n].v.op = "Restore")
                    <=> (batch[r].complaintFeedbackType = <<"not-spam">>)

\* the Agent calls of record r are one call of op for each address of To
UpdatesAll(r, op) ==
    /\ Len(CallsOf(r)) = Len(batch[r].to)
    /\ \A n \in 1..Len(CallsOf(r)) :
         /\ CallsOf(r)[n].v.op = op
         /\ CallsOf(r)[n].v.arg = batch[r].to[n]

\* C5 amended: a Complaint restores all recipients if and only if its
\* complaintSubType is "not-spam", or its complaintSubType is empty and its
\* complaintFeedbackType is "not-spam"; otherwise it removes all recipients.
C5_RestoreIffReasonNotSpam ==
    \A r \in 1..idx :
        IsComplaint(batch[r]) =>
            IF \/ batch[r].complaintSubType = <<"not-spam">>
               \/ /\ batch[r].complaintSubType = <<>>
                  /\ batch[r].complaintFeedbackType = <<"not-spam">>
            THEN UpdatesAll(r, "Restore")
            ELSE UpdatesAll(r, "Remove")

\* a complaint with a sub type and the feedback type "not-spam" was
\* handled, and one with the sub type "not-spam"
C5_Witness ==
    /\ snsPc = "done"
    /\ \E r \in 1..idx :
         /\ IsComplaint(batch[r])
         /\ batch[r].complaintSubType = <<"OnAccountSuppressionList">>
         /\ batch[r].complaintFeedbackType = <<"not-spam">>
         /\ Len(CallsOf(r)) > 0
    /\ \E r \in 1..idx :
         /\ IsComplaint(batch[r])
         /\ batch[r].complaintSubType = <<"not-spam">>

\* line has the form <Type> [Id:"..." From:"..." To:"..." Subject:"..."]: ...
AuditFormat(line) ==
    \E a, b, c, d, e \in 1..Len(line) :
        /\ a < b /\ b < c /\ c < d /\ d < e
        /\ a = 2
        /\ line[a] = " [Id:\""
        /\ line[b] = "\" From:\""
        /\ line[c] = "\" To:\""
        /\ line[d] = "\" Subject:\""
        /\ line[e] = "\"]: "
        /\ e < Len(line)

\* C7: every record of a batch, whatever its outcome, produces at least one
\* log line, and that line has the audit format.
C7_EveryRecordHasAnAuditLine ==
    \A r \in 1..idx :
        /\ Len(LinesOf(r)) >= 1
        /\ \A n \in 1..Len(LinesOf(r)) : AuditFormat(LinesOf(r)[n].v)

IsUnrecognised(m) == m.wellFormed /\ m.eventType \notin ImplementedTypes

\* record r must leave a trace: every message explored does, except an
\* update of an empty To list
LeavesTrace(m) == ~m.wellFormed \/ Len(m.to) > 0

\* C8: a record of an unrecognised event type is not reported as a parse
\* failure; it is logged as "unimplemented event type: <type>", no Agent
\* call is made for it, and the records after it are still handled.
C8_UnrecognisedTypeIsLoggedNotFailed ==
    \A r \in 1..idx :
        IsUnrecognised(batch[r]) =>
            /\ LinesOf(r) = << [rec |-> r,
                               v |-> <<"unimplemented event type: ">>
                                       \o batch[r].eventType] >>
            /\ \A n \in 1..Len(LinesOf(r)) :
                 LinesOf(r)[n].v[1] # "parsing SES event from SNS failed: "
            /\ CallsOf(r) = <<>>
            /\ snsPc = "done" =>
                 /\ idx = Len(batch)
                 /\ \A q \in (r + 1)..Len(batch) :
                      LeavesTrace(batch[q]) => Len(LinesOf(q)) >= 1

\* the part of line after its first token t
AfterMark(line, t) == SubSeq(line, FirstIndex(line, t) + 1, Len(line))

\* the outcome and details of an audit line: what follows its header
OutcomeOf(line) == AfterMark(line, "\"]: ")

\* line starts with the audit header of message m:
\* <Type> [Id:"<id>" From:"<from>" To:"<to>" Subject:"<subject>"]:
HasAuditHeader(line, m) ==
    StartsWith(line,
               m.eventType \o <<" [Id:\"">> \o m.messageId
                 \o <<"\" From:\"">> \o JoinStrings(m.from, <<",">>)
                 \o <<"\" To:\"">> \o JoinStrings(m.to, <<",">>)
                 \o <<"\" Subject:\"">> \o m.subject \o <<"\"]: ">>)

\* record r has one log line for each address of its To list, and line n
\* gives reason after "<address n> due to: "
OneLinePerRecipient(r, reason) ==
    /\ Len(LinesOf(r)) = Len(batch[r].to)
    /\ \A n \in 1..Len(LinesOf(r)) :
         /\ HasAuditHeader(LinesOf(r)[n].v, batch[r])
         /\ Contains(LinesOf(r)[n].v,
                     <<" ">> \o batch[r].to[n] \o <<" due to: ">>)
         /\ StartsWith(AfterMark(LinesOf(r)[n].v, " due to: "),
                       reason \o <<": ">>)

IsBounce(m) == m.wellFormed /\ m.eventType = <<"Bounce">>

\* C16: a Bounce event whose bounceType is anything other than "Transient"
\* invokes Agent.Remove exactly once for each address of the event's To
\* list, in list order, invokes Restore zero times, and uses the reason
\* "<bounceType>/<bounceSubType>" in each recipient's audit line.
C16_PermanentBounceRemovesAll ==
    \A r \in 1..idx :
        (IsBounce(batch[r]) /\ batch[r].bounceType # <<"Transient">>) =>
            /\ UpdatesAll(r, "Remove")
            /\ OneLinePerRecipient(r, batch[r].bounceType \o <<"/">>
                                        \o batch[r].bounceSubType)

\* a Permanent bounce of a mail to two recipients and a bounce of another
\* type were handled
C16_Witness ==
    /\ snsPc = "done"
    /\ \E r, q \in 1..idx :
         /\ IsBounce(batch[r])
         /\ batch[r].bounceType = <<"Permanent">>
         /\ Len(CallsOf(r)) = 2
         /\ IsBounce(batch[q])
         /\ batch[q].bounceType = <<"Undetermined">>

\* message m is a Transient bounce, a Reject, a Send, a Delivery or an
\* event of an unrecognised type
IsMembershipNoOp(m) ==
    /\ m.wellFormed
    /\ \/ IsBounce(m) /\ m.bounceType = <<"Transient">>
       \/ m.eventType \in { <<"Reject">>, <<"Send">>, <<"Delivery">> }
       \/ m.eventType \notin { <<"Bounce">>, <<"Complaint">>, <<"Reject">>,
                                <<"Send">>, <<"Delivery">> }

\* C17: Transient Bounce, Reject, Send, Delivery and unrecognised event
\* types are no-ops on list membership: handling such a record invokes
\* neither Agent.Remove nor Agent.Restore, for any To list.
C17_NoOpEventsMakeNoAgentCall ==
    \A r \in 1..idx : IsMembershipNoOp(batch[r]) => CallsOf(r) = <<>>

\* a Transient bounce of a mail to two recipients and an event of an
\* unrecognised type were handled
C17_Witness ==
    /\ snsPc = "done"
    /\ \E r, q \in 1..idx :
         /\ IsBounce(batch[r])
         /\ batch[r].bounceType = <<"Transient">>
         /\ Len(batch[r].to) = 2
         /\ Len(LinesOf(r)) = 1
         /\ IsUnrecognised(batch[q])

\* C18: the reason used for a Complaint is complaintSubType when it is
\* non-empty, otherwise complaintFeedbackType when it is non-empty,
\* otherwise "unknown"; that reason appears after "due to: " in every
\* recipient's audit line of the event.
C18_ComplaintReasonInEveryLine ==
    \A r \in 1..idx :
        IsComplaint(batch[r]) =>
            OneLinePerRecipient(r,
                IF batch[r].complaintSubType # <<>>
                THEN batch[r].complaintSubType
                ELSE IF batch[r].complaintFeedbackType # <<>>
                THEN batch[r].complaintFeedbackType
                ELSE <<"unknown">>)

\* a complaint without sub type and feedback type and one with both were
\* handled
C18_Witness ==
    /\ snsPc = "done"
    /\ \E r, q \in 1..idx :
         /\ IsComplaint(batch[r])
         /\ batch[r].complaintSubType = <<>>
         /\ batch[r].complaintFeedbackType = <<>>
         /\ Len(LinesOf(r)) = 1
         /\ IsComplaint(batch[q])
         /\ batch[q].complaintSubType # <<>>
         /\ batch[q].complaintFeedbackType # <<>>

\* the log lines and Agent calls of record r are those of handling message
\* batch[r] on its own, for some outcome of its Agent calls
HandledOnItsOwn(r) ==
    LET out == handleRecord(snsImpl, batch[r]) IN
    \E fails \in [1..Len(out.pending) -> BOOLEAN] :
        /\ LinesOf(r) =
             Tagged(out.lines, r)
               \o [n \in 1..Len(out.pending) |->
                     [rec |-> r,
                      v |-> logOutcome(out.pending[n].evh,
                              updateRecipient(out.pending[n].up,
                                              out.pending[n].email,
                                              out.pending[n].reason,
                                              fails[n]))]]
        /\ CallsOf(r) =
             [n \in 1..Len(out.pending) |->
                [rec |-> r,
                 v |-> [op |-> out.pending[n].up.action,
                        arg |-> out.pending[n].email, fails |-> fails[n]]]]

\* seq is ordered by record number
InRecordOrder(seq) ==
    \A n \in 1..(Len(seq) - 1) : seq[n].rec <= seq[n + 1].rec

\* C19: if record k of a batch fails to parse, snsHandler.HandleEvent logs
\* exactly one parse-error line for record k (with the error and the raw
\* record), makes no agent call for it, and handles every record before and
\* after k with the same agent calls and audit lines as if record k were
\* absent.
C19_ParseFailureIsLoggedAndSkipped ==
    \A k \in 1..idx :
        ~batch[k].wellFormed =>
            /\ LinesOf(k) =
                 << [rec |-> k,
                     v |-> <<"parsing SES event from SNS failed: ",
                             "unexpected end of JSON input", ": ">>
                             \o Text(batch[k])] >>
            /\ CallsOf(k) = <<>>
            /\ InRecordOrder(logs) /\ InRecordOrder(agentCalls)
            /\ \A r \in 1..idx : r # k => HandledOnItsOwn(r)
            /\ snsPc = "done" => idx = Len(batch)

\* a batch whose first record failed to parse and whose second record
\* removed a recipient
C19_Witness ==
    /\ snsPc = "done"
    /\ idx = 2
    /\ ~batch[1].wellFormed
    /\ Len(LinesOf(1)) = 1
    /\ Len(CallsOf(2)) >= 1
    /\ CallsOf(2)[1].v.op = "Remove"

\* message m removes or restores its recipients
IsUpdate(m) ==
    \/ IsComplaint(m)
    \/ IsBounce(m) /\ m.bounceType # <<"Transient">>

\* C20: for a remove or restore event, the agent action is invoked exactly
\* once for every address of the To list even when the call for an earlier
\* address returned an error, and each call yields exactly one audit line
\* of its own: "<removed|restored> <addr> due to: <reason>" on success,
\* "error <removing|restoring> <addr> due to: <reason>: <error>" on failure.
C20_EveryRecipientUpdatedAndLogged ==
    \A r \in 1..idx :
        IsUpdate(batch[r]) =>
            /\ Len(CallsOf(r)) = Len(batch[r].to)
            /\ Len(LinesOf(r)) = Len(batch[r].to)
            /\ \A n \in 1..Len(batch[r].to) :
                 LET call == CallsOf(r)[n].v
                     outcome == OutcomeOf(LinesOf(r)[n].v)
                     verb == IF call.op = "Remove"
                             THEN [ok |-> "removed", bad |-> "error removing"]
                             ELSE [ok |-> "restored",
                                   bad |-> "error restoring"]
                     reason == SubSeq(AfterMark(outcome, " due to: "), 1,
                                      FirstIndex(AfterMark(outcome, " due to: "),
                                                 ": ") - 1)
                 IN  /\ call.op \in {"Remove", "Restore"}
                     /\ call.arg = batch[r].to[n]
                     /\ HasAuditHeader(LinesOf(r)[n].v, batch[r])
                     /\ Len(reason) >= 1
                     /\ StartsWith(outcome,
                           <<IF call.fails THEN verb.bad ELSE verb.ok, " ">>
                             \o batch[r].to[n] \o <<" due to: ">> \o reason
                             \o (IF call.fails THEN <<": ", "agent error", ": ">>
                                 ELSE <<": ">>)
                             \o Text(batch[r]))

\* the Agent call for the first of two recipients failed and the call for
\* the second succeeded
C20_Witness ==
    /\ snsPc = "done"
    /\ \E r \in 1..idx :
         /\ IsUpdate(batch[r])
         /\ Len(CallsOf(r)) = 2
         /\ CallsOf(r)[1].v.fails
         /\ ~CallsOf(r)[2].v.fails

\* what the typed fields of message m ask for: "Remove", "Restore" or
\* "NoOp"
MembershipAction(m) ==
    IF IsBounce(m)
    THEN IF m.bounceType = <<"Transient">> THEN "NoOp" ELSE "Remove"
    ELSE IF IsComplaint(m)
    THEN IF \/ m.complaintSubType = <<"not-spam">>
            \/ /\ m.complaintSubType = <<>>
               /\ m.complaintFeedbackType = <<"not-spam">>
         THEN "Restore" ELSE "Remove"
    ELSE "NoOp"

\* C21: every successfully parsed event maps to exactly one of
\* remove-all-recipients, restore-all-recipients or no-op, decided only by
\* its typed fields: within one record the agent calls are either all
\* Remove or all Restore, never mixed, and the choice does not depend on
\* agent results or on earlier records of the batch.
C21_OneActionPerEvent ==
    \A r \in 1..idx :
        batch[r].wellFormed =>
            /\ \A n, q \in 1..Len(CallsOf(r)) :
                 CallsOf(r)[n].v.op = CallsOf(r)[q].v.op
            /\ IF MembershipAction(batch[r]) = "NoOp"
               THEN CallsOf(r) = <<>>
               ELSE UpdatesAll(r, MembershipAction(batch[r]))

\* after a record that restored its recipients, a record removed two
\* recipients although the Agent call for the first of them failed
C21_Witness ==
    /\ snsPc = "done"
    /\ idx = 2
    /\ MembershipAction(batch[1]) = "Restore"
    /\ Len(CallsOf(1)) >= 1
    /\ MembershipAction(batch[2]) = "Remove"
    /\ Len(CallsOf(2)) = 2
    /\ CallsOf(2)[1].v.fails

\* every record of the batch has been handled and has its log lines
BatchHandled ==
    /\ idx = Len(batch)
    /\ \A r \in 1..Len(batch) : HandledOnItsOwn(r)
    /\ \A n \in 1..Len(logs) : logs[n].rec \in 1..Len(batch)

\* C26: snsHandler.HandleEvent on a finite batch always terminates provided
\* every agent call returns, and by the time it returns every record of the
\* batch has been handled and all log lines for each record have been
\* written; no record is left unhandled because of an earlier record's
\* parse failure, unrecognised type or agent error.
C26_BatchAlwaysCompletes ==
    /\ (snsPc = "running") ~> (snsPc = "done")
    /\ [](snsPc = "done" => BatchHandled)

\* a batch returned whose first record failed to parse, or was of an
\* unrecognised type, and whose second record had a failing Agent call
C26_Witness ==
    /\ snsPc = "done"
    /\ idx = 2
    /\ (~batch[1].wellFormed \/ IsUnrecognised(batch[1]))
    /\ Len(CallsOf(2)) = 2
    /\ CallsOf(2)[1].v.fails
    /\ Len(LinesOf(2)) = 2

----------------------------------------------------------------------------
\* Properties of the inbound mail handler.

\* the log lines, and the calls to outside services, made for record r
MailLinesOf(r) == SelectSeq(mailLogs, LAMBDA t : t.rec = r)
MailCallsOf(r) == SelectSeq(mailCalls, LAMBDA t : t.rec = r)

\* the mailtoEvent made of record r
EventOf(r) == newMailtoEvent(mailBatch[r])

\* C6: when the DMARC verdict is FAIL and the DMARC policy is REJECT,
\* Bouncer.Bounce is invoked exactly once with the receipt's recipients and
\* handling stops: the mail is not classified as spam and Agent.Unsubscribe
\* is not invoked, whatever Bounce returns.
C6_DmarcBounceStopsHandling ==
    \A r \in 1..mailIdx :
        dmarcFails(EventOf(r)) =>
            /\ Len(MailCallsOf(r)) = 1
            /\ MailCallsOf(r)[1].op = "Bounce"
            /\ MailCallsOf(r)[1].arg = EventOf(r).Recipients
            /\ \A n \in 1..Len(MailLinesOf(r)) :
                 ~Contains(MailLinesOf(r)[n].v, <<"marked as spam, ignored">>)

\* the DMARC verdict and policy of record r ask for a bounce
BounceTriggered(r) ==
    /\ EventOf(r).DmarcVerdict = <<"FAIL">>
    /\ EventOf(r).DmarcPolicy = <<"REJECT">>

\* one of the SPF, DKIM, spam and virus verdicts of record r is FAIL
SomeVerdictFails(r) ==
    \E v \in { EventOf(r).SpfVerdict, EventOf(r).DkimVerdict,
                EventOf(r).SpamVerdict, EventOf(r).VirusVerdict } :
        v = <<"FAIL">>

\* the outcome of a mailto log line: what follows its header
MailOutcomeOf(line) == AfterMark(line, "\"]: ")

\* C22: when no DMARC bounce is triggered and at least one of the SPF,
\* DKIM, spam or virus verdicts is FAIL, the inbound mail is classified as
\* spam and nothing else happens: neither Bouncer.Bounce nor
\* Agent.Unsubscribe is invoked and the logged outcome is "marked as spam,
\* ignored".
C22_SpamIsIgnored ==
    \A r \in 1..mailIdx :
        (~BounceTriggered(r) /\ SomeVerdictFails(r)) =>
            /\ MailCallsOf(r) = <<>>
            /\ Len(MailLinesOf(r)) = 1
            /\ MailOutcomeOf(MailLinesOf(r)[1].v)
                 = <<"marked as spam, ignored">>

\* a well-formed unsubscribe command whose only failing verdict is the
\* virus verdict was ignored
C22_Witness ==
    /\ mailPc = "done"
    /\ \E r \in 1..mailIdx :
         /\ ~BounceTriggered(r)
         /\ EventOf(r).VirusVerdict = <<"FAIL">>
         /\ EventOf(r).SpfVerdict = <<"PASS">>
         /\ EventOf(r).DkimVerdict = <<"PASS">>
         /\ EventOf(r).SpamVerdict = <<"PASS">>
         /\ Len(EventOf(r).Subject) = 3
         /\ MailCallsOf(r) = <<>>
         /\ Len(MailLinesOf(r)) = 1

\* the positions in the calls of record r of the calls of method op
MailCallsTo(r, op) ==
    { n \in 1..Len(MailCallsOf(r)) : MailCallsOf(r)[n].op = op }

\* the subject of record r is an unsubscribe command
IsUnsubscribeCommand(r) ==
    ~parseMailtoEvent(EventOf(r), <<"unsubscribe@">> \o EmailDomain).err.isErr

\* C23: Agent.Unsubscribe is invoked at most once per inbound mail record,
\* and only when no DMARC bounce was triggered, none of the SPF/DKIM/spam/
\* virus verdicts is FAIL, and the message parsed as an unsubscribe command;
\* a message that fails that parse causes no agent call.
C23_UnsubscribeOnlyForCleanCommand ==
    \A r \in 1..mailIdx :
        /\ Cardinality(MailCallsTo(r, "Unsubscribe")) <= 1
        /\ MailCallsTo(r, "Unsubscribe") # {} =>
             /\ ~BounceTriggered(r)
             /\ ~SomeVerdictFails(r)
             /\ IsUnsubscribeCommand(r)
        /\ ~IsUnsubscribeCommand(r) => MailCallsTo(r, "Unsubscribe") = {}

\* the outcomes a mailto log line can give
IsMailOutcome(o) ==
    \/ o \in { <<"success">>, <<"marked as spam, ignored">>,
                <<"DMARC bounce failed: ", "bounce error">>,
                <<"error: ", "agent error">> }
    \/ Len(o) = 2 /\ o[1] \in { "DMARC bounced with message ID: ",
                                 "failed: " }
    \/ Len(o) >= 2 /\ o[1] = "failed to parse, ignoring: "

\* C24: exactly one outcome line is logged for every inbound mail record
\* handled by the mailto handler, on every branch: bounce sent, bounce
\* failed, classified as spam, unsubscribe parse failure, agent error,
\* unsubscribe not performed, and success.
C24_OneOutcomeLinePerMail ==
    /\ \A r \in 1..mailIdx :
         /\ Len(MailLinesOf(r)) = 1
         /\ StartsWith(MailLinesOf(r)[1].v,
                       <<"unsubscribe [Id:\"">> \o EventOf(r).MessageId)
         /\ IsMailOutcome(MailOutcomeOf(MailLinesOf(r)[1].v))
         /\ (MailOutcomeOf(MailLinesOf(r)[1].v) = <<"success">>) <=>
               \E n \in MailCallsTo(r, "Unsubscribe") :
                   MailCallsOf(r)[n].ans = [result |-> <<"Unsubscribed">>,
                                            fails |-> FALSE]
    /\ mailPc = "done" =>
         /\ mailIdx = Len(mailBatch)
         /\ Len(mailLogs) = Len(mailBatch)

\* an event of two records returned: a mail taken for spam, for which
\* nothing was called, and a mail whose bounce failed
C24_Witness ==
    /\ mailPc = "done"
    /\ mailIdx = 2
    /\ MailOutcomeOf(MailLinesOf(1)[1].v) = <<"marked as spam, ignored">>
    /\ MailCallsOf(1) = <<>>
    /\ EventOf(1).SpfVerdict = <<"FAIL">>
    /\ Len(MailCallsOf(2)) = 1
    /\ MailCallsOf(2)[1].ans.fails
    /\ Len(MailLinesOf(2)) = 1

\* a verdict or policy in lower case
LowerVerdict(v) ==
    CASE v \in { <<"PASS">>, <<"Pass">>, <<"pass">> } -> "pass"
      [] v \in { <<"FAIL">>, <<"Fail">>, <<"fail">> } -> "fail"
      [] v \in { <<"REJECT">>, <<"Reject">>, <<"reject">> } -> "reject"
      [] v \in { <<"NONE">>, <<"None">>, <<"none">> } -> "none"
      [] OTHER -> v

\* inbound mails s and t differ at most in the letter case of their
\* verdicts and of their DMARC policy
SameButForCase(s, t) ==
    /\ \A f \in {"From", "To", "Subject", "MessageId", "Recipients"} :
         s[f] = t[f]
    /\ \A f \in {"SPFVerdict", "DKIMVerdict", "SpamVerdict", "VirusVerdict",
                  "DMARCVerdict", "DMARCPolicy"} :
         LowerVerdict(s[f]) = LowerVerdict(t[f])

\* what handleMailtoEvent does with the event ev on its own, Bounce
\* returning b and Unsubscribe returning u when they are called: the calls
\* made and the outcome logged
RunOf(ev, b, u) ==
    LET bounced == dmarcFails(ev)
        bounceCall == IF bounced
                      THEN << [op |-> "Bounce", arg |-> ev.Recipients,
                               ans |-> b] >>
                      ELSE <<>>
        op == parseMailtoEvent(ev, unsubscribeAddr)
        unsubCall == << [op |-> "Unsubscribe", arg |-> <<op.Email, op.Uid>>,
                         ans |-> u] >>
    IN  IF bounced /\ bounceOutcome(b) # <<>>
        THEN [calls |-> bounceCall, outcome |-> bounceOutcome(b)]
        ELSE IF outcomeBeforeUnsubscribe(ev) # <<>>
        THEN [calls |-> bounceCall, outcome |-> outcomeBeforeUnsubscribe(ev)]
        ELSE [calls |-> bounceCall \o unsubCall,
              outcome |-> unsubscribeOutcome(u)]

\* C25: authentication verdicts and the DMARC policy are compared
\* case-insensitively: two inbound mails that differ only in the letter
\* case of their SPF, DKIM, spam, virus or DMARC verdicts or of their DMARC
\* policy take the same branch and produce the same Bounce/Unsubscribe
\* calls and the same outcome.
C25_VerdictCaseDoesNotMatter ==
    \A r \in 1..mailIdx :
        \A t \in InboundMails :
            SameButForCase(mailBatch[r], t) =>
                \E b \in BounceResults, u \in UnsubscribeResults :
                    LET res == RunOf(newMailtoEvent(t), b, u) IN
                    /\ [n \in 1..Len(MailCallsOf(r)) |->
                          [op |-> MailCallsOf(r)[n].op,
                           arg |-> MailCallsOf(r)[n].arg,
                           ans |-> MailCallsOf(r)[n].ans]] = res.calls
                    /\ MailLinesOf(r) =
                         << [rec |-> r,
                             v |-> mailtoLogOutcome(newMailtoEvent(t),
                                                    res.outcome)] >>

\* the mails explored spell a failing verdict in two letter cases for each
\* of the SPF, DKIM, spam and virus verdicts, and so for the DMARC verdict
\* and policy
C25_EveryFieldInTwoCases ==
    \A f \in {"SPFVerdict", "DKIMVerdict", "SpamVerdict", "VirusVerdict",
               "DMARCVerdict", "DMARCPolicy"} :
        \E s, t \in InboundMails :
            /\ s[f] # t[f]
            /\ LowerVerdict(s[f]) \in {"fail", "reject"}
            /\ SameButForCase(s, t)

\* two records returned: a mail whose DMARC verdict and policy came in
\* lower case was bounced, and a mail whose only failing verdict is an SPF
\* verdict that came as "Fail" was taken for spam
C25_Witness ==
    /\ mailPc = "done"
    /\ C25_EveryFieldInTwoCases
    /\ \E r, q \in 1..mailIdx :
         /\ mailBatch[r].DMARCVerdict = <<"fail">>
         /\ mailBatch[r].DMARCPolicy = <<"reject">>
         /\ MailCallsTo(r, "Bounce") # {}
         /\ mailBatch[q].SPFVerdict = <<"Fail">>
         /\ mailBatch[q].DKIMVerdict = <<"PASS">>
         /\ mailBatch[q].SpamVerdict = <<"PASS">>
         /\ mailBatch[q].VirusVerdict = <<"PASS">>
         /\ ~BounceTriggered(q)
         /\ MailCallsOf(q) = <<>>
         /\ MailOutcomeOf(MailLinesOf(q)[1].v) = <<"marked as spam, ignored">>

====
